---- MODULE Spec2Model ----
(***************************************************************************)
(* A model of the AMP linter's rule execution engine: the class-based      *)
(* lint() of src/unnamed/part_010, the throat-gated network helpers of     *)
(* src/unnamed/part_008 and the rule catalog testsForType(); and of what   *)
(* stands around it: the command line and its formatters (part_012 and     *)
(* amp-toolbox-linter/src/index.ts), the Context's headers as the helpers  *)
(* use them, and the test suite's fixture harness withFixture().           *)
(*                                                                         *)
(* JavaScript values are records with a tag field t, so that undefined,    *)
(* strings, Error objects, Results and lists of Results can be compared.   *)
(* Rule names are sequences of one-character strings, so that              *)
(* String.prototype.toLowerCase is computed and not assumed.               *)
(***************************************************************************)
EXTENDS Naturals, Sequences, FiniteSets

VARIABLES
    tcs,        \* lint: the rule set, a sequence of rule class names
    launched,   \* lint: how many elements tcs.map() has called its callback on
    how,        \* lint: what each rule did: idle, ctorThrew, pending, threw, returned, rejected
    val,        \* lint: the value each rule returned, threw or rejected with
    res,        \* lint: the promise of each async callback given to Promise.all
    lintP,      \* lint: the promise returned by lint()
    lastSettled,\* lint: the rule whose run() threw or whose promise settled most recently, 0 if none
    size,       \* gate: throat's free-permit count of each gated helper
    queue,      \* gate: throat's queue of delayed calls of each gated helper
    arrived,    \* gate: number of calls made to each gated helper so far
    lastStarted,\* gate: arrival number of the call each gated helper started last
    settled,    \* gate: number of calls of each gated helper that have settled
    inFlight,   \* network: requests in flight inside each gated helper
    direct,     \* network: requests in flight that were issued by fetch() or probe() directly
    calls,      \* network: number of helper calls made so far
    impl,       \* catalog: which testsForType is called, the rule classes' or the test functions'
    type,       \* catalog: testsForType's type argument
    doc,        \* catalog: the parsed document, as its amp-story elements
    selected,   \* catalog: the rule list testsForType returned, once it has
    cliPc,      \* cli: where the promise chain of cli() is: off, fetching, linting, done
    raw,        \* cli: the promise of the document (easyLint's raw, index.ts's body)
    format,     \* cli: the output format option
    data,       \* formatter: the Report given to the function outputterForType returned
    output,     \* formatter: what that function returned, once it has
    stdout,     \* cli: what console.log printed, once it has
    stderr,     \* cli: what console.error printed, once it has
    exitCode,   \* cli: the exit code of the process, process.exitCode || 0
    context,    \* context: the Context of the lint pass; its headers field is a reference
    heap,       \* context: the header objects, the Context's and the one a helper makes
    built,      \* context: the Context and its headers as they were constructed
    sent,       \* context: the helper that issued the last request and the headers it sent
    ops,        \* fixtures: the withFixture calls made so far, each with its position and promises
    fxSize,     \* fixtures: the free-permit count of withFixture's throat(1, ...)
    fxQueue,    \* fixtures: that throat's queue of delayed calls
    mode,       \* fixtures: the global nockBack mode
    files,      \* fixtures: the fixture names whose file exists
    rule,       \* rule: the test function that is run
    rin,        \* rule: what the test reads of the Context: the url and the document's elements
    reqs,       \* rule: the promises of the requests the test has issued, in the order issued
    completed,  \* rule: the requests that have settled, in the order they settled
    rout,       \* rule: the promise the test function returned
    version,    \* tap: which of the two local fixture runners runs
    dirs,       \* tap: the number of directories readdirSync lists
    COUNT,      \* tap: the counter the callbacks share (COUNT, and `let count` of the second runner)
    counts,     \* tap: the `const count` of each callback of the first runner
    tapSt,      \* tap: where each directory's callback is
    tapOut,     \* tap: the lines written with console.log, in order
    webReq,     \* web: the query of the request to /lint
    webPc,      \* web: where the handler is
    webR,       \* web: the Report lint resolved to
    webRes      \* web: the response sent

lintVars == <<tcs, launched, how, val, res, lintP, lastSettled>>

gateVars == <<size, queue, arrived, lastStarted, settled, inFlight, direct, calls>>

catVars == <<impl, type, doc, selected>>

cliVars == <<cliPc, raw, format, data, output, stdout, stderr, exitCode>>

ctxVars == <<context, heap, built, sent>>

fxVars == <<ops, fxSize, fxQueue, mode, files>>

ruleVars == <<rule, rin, reqs, completed, rout>>

tapVars == <<version, dirs, COUNT, counts, tapSt, tapOut>>

webVars == <<webReq, webPc, webR, webRes>>

vars == <<tcs, launched, how, val, res, lintP, lastSettled,
          size, queue, arrived, lastStarted, settled, inFlight, direct, calls,
          impl, type, doc, selected,
          cliPc, raw, format, data, output, stdout, stderr, exitCode,
          context, heap, built, sent,
          ops, fxSize, fxQueue, mode, files,
          rule, rin, reqs, completed, rout,
          version, dirs, COUNT, counts, tapSt, tapOut,
          webReq, webPc, webR, webRes>>

\* what the actions of one component leave alone
nonLintVars == <<gateVars, catVars, cliVars, ctxVars, fxVars, ruleVars, tapVars, webVars>>

nonGateVars == <<lintVars, catVars, cliVars, ctxVars, fxVars, ruleVars, tapVars, webVars>>

nonCatVars == <<lintVars, gateVars, cliVars, ctxVars, fxVars, ruleVars, tapVars, webVars>>

nonCliVars == <<lintVars, gateVars, catVars, ctxVars, fxVars, ruleVars, tapVars, webVars>>

nonCtxVars == <<lintVars, gateVars, catVars, cliVars, fxVars, ruleVars, tapVars, webVars>>

nonFxVars == <<lintVars, gateVars, catVars, cliVars, ctxVars, ruleVars, tapVars, webVars>>

nonRuleVars == <<lintVars, gateVars, catVars, cliVars, ctxVars, fxVars, tapVars, webVars>>

nonTapVars == <<lintVars, gateVars, catVars, cliVars, ctxVars, fxVars, ruleVars, webVars>>

nonWebVars == <<lintVars, gateVars, catVars, cliVars, ctxVars, fxVars, ruleVars, tapVars>>

(***************************************************************************)
(* Bounds of the model.                                                    *)
(***************************************************************************)
MaxRules == 2

MaxCalls == 17

MaxStories == 2

MaxList == 2

MaxOps == 3

MaxElems == 2

MaxDirs == 3

(***************************************************************************)
(* JavaScript values.                                                      *)
(***************************************************************************)
Undefined == [t |-> "undefined"]

Str(s) == [t |-> "string", s |-> s]

ErrorObj(m) == [t |-> "error", message |-> m]

Result(status, message) == [t |-> "result", status |-> status, message |-> message]

ResultList(items) == [t |-> "list", items |-> items]

\* enum Status
Status == {"PASS", "FAIL", "WARN", "INFO", "INTERNAL_ERROR"}

\* JSON.stringify(e): undefined has no JSON text, an Error has no enumerable
\* own property, a string is quoted.
JSONstringify(e) ==
    CASE e.t = "undefined" -> Undefined
      [] e.t = "error"     -> Str("{}")
      [] e.t = "string"    -> Str("\"" \o e.s \o "\"")

\* String.prototype.toLowerCase on one character of the names' alphabet
LowerChar(c) ==
    CASE c = "A" -> "a"
      [] c = "B" -> "b"
      [] c = "C" -> "c"
      [] OTHER   -> c

toLowerCase(name) == [i \in DOMAIN name |-> LowerChar(name[i])]

(***************************************************************************)
(* Inputs: rule classes, what a rule may return and what it may throw.     *)
(***************************************************************************)
RuleNames == { <<"A", "b">>, <<"a", "b">>, <<"C", "d">> }

Outcomes ==
    { Result("PASS", Undefined),
      Result("FAIL", Str("<link rel=canonical> not specified")),
      ResultList(<<>>) }

ThrownValues == { Undefined, ErrorObj("boom"), Str("") }

RuleSets == UNION { [1..n -> RuleNames] : n \in 0..MaxRules }

(***************************************************************************)
(* Promises.                                                               *)
(***************************************************************************)
Pending == [state |-> "pending"]

Fulfilled(v) == [state |-> "fulfilled", value |-> v]

Rejected(e) == [state |-> "rejected", reason |-> e]

N == Len(tcs)

(***************************************************************************)
(* The components at rest: lint not called, no request made, testsForType  *)
(* not called, cli not called.                                             *)
(***************************************************************************)
CONCURRENCY == 8

\* the helpers made with throat(CONCURRENCY, ...), one throat instance each
Gated == {"redirectUrl", "contentLength"}

\* the helpers and rules that call fetch() or probe() directly
Ungated == {"canXhrSameOrigin", "canXhrCache", "dimensions", "sxgFetch"}

Helpers == Gated \cup Ungated

Null == <<"not called">>

\* nothing returned or printed yet
Nothing == [t |-> "nothing"]

IdleLint ==
    /\ tcs = <<>>
    /\ launched = 0
    /\ how = <<>>
    /\ val = <<>>
    /\ res = <<>>
    /\ lintP = Pending
    /\ lastSettled = 0

IdleGate ==
    /\ size = [g \in Gated |-> CONCURRENCY]
    /\ queue = [g \in Gated |-> <<>>]
    /\ arrived = [g \in Gated |-> 0]
    /\ lastStarted = [g \in Gated |-> 0]
    /\ settled = [g \in Gated |-> 0]
    /\ inFlight = [g \in Gated |-> 0]
    /\ direct = 0
    /\ calls = 0

IdleCatalog ==
    /\ impl = "rules"
    /\ type = "auto"
    /\ doc = <<>>
    /\ selected = Null

\* a header object without properties: {}
EmptyHeaders == [x \in {} |-> ""]

\* the Context of a lint pass: url, raw and headers, the last a reference
\* to a header object on the heap
ContextOf(u) == [url |-> u, raw |-> [headers |-> "res.headers", body |-> "<html>"],
                 headers |-> "ctx"]

IdleContext ==
    /\ context = ContextOf("https://example.com/")
    /\ heap = [r \in {"ctx", "tmp"} |-> EmptyHeaders]
    /\ built = [context |-> context, headers |-> EmptyHeaders]
    /\ sent = Nothing

IdleFixtures ==
    /\ ops = <<>>
    /\ fxSize = 1
    /\ fxQueue = <<>>
    /\ mode = "dryrun"
    /\ files = {}

IdleRule ==
    /\ rule = "none"
    /\ rin = <<>>
    /\ reqs = <<>>
    /\ completed = <<>>
    /\ rout = Nothing

IdleTap ==
    /\ version = 0
    /\ dirs = 0
    /\ COUNT = 0
    /\ counts = <<>>
    /\ tapSt = <<>>
    /\ tapOut = <<>>

IdleWeb ==
    /\ webReq = Nothing
    /\ webPc = "off"
    /\ webR = Nothing
    /\ webRes = Nothing

IdleCli ==
    /\ cliPc = "off"
    /\ raw = Pending
    /\ format = "text"
    /\ data = <<>>
    /\ output = Nothing
    /\ stdout = Nothing
    /\ stderr = Nothing
    /\ exitCode = 0

(***************************************************************************)
(* lint(tcs, context)                                                      *)
(***************************************************************************)

\* the catch block: [t.constructor.name, {status: INTERNAL_ERROR, message: JSON.stringify(e)}]
Caught(name, e) == <<name, Result("INTERNAL_ERROR", JSONstringify(e))>>

\* the try block's return: [t.constructor.name, r]
Returned(name, r) == <<name, r>>

\* lint as a loop that awaits each rule's run before it calls the next
\* rule's: `for (const tc of tcs) { ... await t.run(context) ... }`
Launch_AfterPrevious(i) ==
    /\ lintP.state = "pending"
    /\ launched = i - 1
    /\ i <= N
    /\ IF i = 1 THEN TRUE ELSE how[i - 1] # "pending"
    /\ launched' = i
    /\ \/ \E e \in ThrownValues :
            /\ how' = [how EXCEPT ![i] = "threw"]
            /\ val' = [val EXCEPT ![i] = e]
            /\ res' = [res EXCEPT ![i] = Fulfilled(Caught(tcs[i], e))]
            /\ lastSettled' = i
       \/ /\ how' = [how EXCEPT ![i] = "pending"]
          /\ UNCHANGED <<val, res, lastSettled>>
    /\ UNCHANGED <<tcs, lintP>>
    /\ UNCHANGED nonLintVars

\* The synchronous part of the async callback for tcs[i]: new tc() outside
\* the try, then t.run(context) inside it, up to the await.
Launch(i) ==
    /\ lintP.state = "pending"
    /\ launched = i - 1
    /\ i <= N
    /\ launched' = i
    /\ \/ \E e \in {ErrorObj("boom")} :       \* new tc() throws: the callback's promise rejects
            /\ how' = [how EXCEPT ![i] = "ctorThrew"]
            /\ val' = [val EXCEPT ![i] = e]
            /\ res' = [res EXCEPT ![i] = Rejected(e)]
            /\ lastSettled' = i
       \/ \E e \in ThrownValues :             \* t.run(context) throws synchronously
            /\ how' = [how EXCEPT ![i] = "threw"]
            /\ val' = [val EXCEPT ![i] = e]
            /\ res' = [res EXCEPT ![i] = Fulfilled(Caught(tcs[i], e))]
            /\ lastSettled' = i
       \/ /\ how' = [how EXCEPT ![i] = "pending"]   \* t.run(context) returned a promise
          /\ UNCHANGED <<val, res, lastSettled>>
    /\ UNCHANGED <<tcs, lintP>>
    /\ UNCHANGED nonLintVars

\* The promise awaited at `await t.run(context)` settles.
Settle(i) ==
    /\ launched = N
    /\ i \in 1..N
    /\ how[i] = "pending"
    /\ \/ \E r \in Outcomes :
            /\ how' = [how EXCEPT ![i] = "returned"]
            /\ val' = [val EXCEPT ![i] = r]
            /\ res' = [res EXCEPT ![i] = Fulfilled(Returned(tcs[i], r))]
       \/ \E e \in ThrownValues :
            /\ how' = [how EXCEPT ![i] = "rejected"]
            /\ val' = [val EXCEPT ![i] = e]
            /\ res' = [res EXCEPT ![i] = Fulfilled(Caught(tcs[i], e))]
    /\ lastSettled' = i
    /\ UNCHANGED <<tcs, launched, lintP>>
    /\ UNCHANGED nonLintVars

\* a reducer that keeps the entry a key already has
Assign_KeepsFirst(a, kv) ==
    LET k == toLowerCase(kv[1])
    IN  [x \in DOMAIN a \cup {k} |-> IF x \in DOMAIN a THEN a[x] ELSE kv[2]]

\* the reducer: a[kv[0].toLowerCase()] = kv[1]; return a;
Assign(a, kv) ==
    LET k == toLowerCase(kv[1])
    IN  [x \in DOMAIN a \cup {k} |-> IF x = k THEN kv[2] ELSE a[x]]

\* res.reduce(reducer, {}): the pairs are folded in array order
RECURSIVE Reduce(_, _)
Reduce(kvs, a) ==
    IF kvs = <<>> THEN a ELSE Reduce(Tail(kvs), Assign(a, Head(kvs)))

EmptyObject == [x \in {} |-> Undefined]

\* lint with one try around the whole Promise.all instead of one per rule:
\* when some rule throws or rejects, every rule's entry is the synthesized
\* INTERNAL_ERROR.
LintResolve_SharedTry ==
    /\ lintP.state = "pending"
    /\ launched = N
    /\ \A i \in 1..N : res[i].state = "fulfilled"
    /\ lintP' =
          IF \E i \in 1..N : how[i] \in {"threw", "rejected"}
          THEN LET f == CHOOSE i \in 1..N : how[i] \in {"threw", "rejected"}
               IN  Fulfilled(Reduce([i \in 1..N |-> Caught(tcs[i], val[f])], EmptyObject))
          ELSE Fulfilled(Reduce([i \in 1..N |-> res[i].value], EmptyObject))
    /\ UNCHANGED <<tcs, launched, how, val, res, lastSettled>>
    /\ UNCHANGED nonLintVars

\* lint with res.reduce(reducer) given no initial value: reduce of an empty
\* array throws a TypeError, so lint of an empty rule set rejects.
LintResolve_NoInitialValue ==
    /\ lintP.state = "pending"
    /\ launched = N
    /\ \A i \in 1..N : res[i].state = "fulfilled"
    /\ lintP' = IF N = 0
                THEN Rejected(ErrorObj("Reduce of empty array with no initial value"))
                ELSE Fulfilled(Reduce([i \in 1..N |-> res[i].value], EmptyObject))
    /\ UNCHANGED <<tcs, launched, how, val, res, lastSettled>>
    /\ UNCHANGED nonLintVars

\* every promise given to Promise.all is fulfilled: lint resolves with the fold
LintResolve ==
    /\ lintP.state = "pending"
    /\ launched = N
    /\ \A i \in 1..N : res[i].state = "fulfilled"
    /\ lintP' = Fulfilled(Reduce([i \in 1..N |-> res[i].value], EmptyObject))
    /\ UNCHANGED <<tcs, launched, how, val, res, lastSettled>>
    /\ UNCHANGED nonLintVars

\* a promise given to Promise.all is rejected: the await throws and lint rejects
LintReject ==
    /\ lintP.state = "pending"
    /\ launched = N
    /\ \E i \in 1..N :
          /\ res[i].state = "rejected"
          /\ \A j \in 1..(i - 1) : res[j].state # "rejected"
          /\ lintP' = Rejected(res[i].reason)
    /\ UNCHANGED <<tcs, launched, how, val, res, lastSettled>>
    /\ UNCHANGED nonLintVars

(***************************************************************************)
(* The network helpers of url.ts and the throat gates around two of them.  *)
(***************************************************************************)
\* how a request ends: the wrapped function's promise is fulfilled, or it is
\* rejected (fetch fails, contentLength returns Promise.reject(res))
Ends == {"fulfilled", "rejected"}

\* run() that enters the wrapped function whether or not a permit is free.
Run_NoLimit(g) ==
    /\ calls < MaxCalls
    /\ calls' = calls + 1
    /\ arrived' = [arrived EXCEPT ![g] = @ + 1]
    /\ size' = [size EXCEPT ![g] = IF @ > 0 THEN @ - 1 ELSE 0]
    /\ inFlight' = [inFlight EXCEPT ![g] = @ + 1]
    /\ lastStarted' = [lastStarted EXCEPT ![g] = arrived[g] + 1]
    /\ UNCHANGED <<queue, settled, direct>>
    /\ UNCHANGED nonGateVars

\* throat's run(): with a free permit the wrapped function is entered at once
\* (size--, fetch issued), otherwise the call is pushed on the queue.
Run(g) ==
    /\ calls < MaxCalls
    /\ calls' = calls + 1
    /\ arrived' = [arrived EXCEPT ![g] = @ + 1]
    /\ IF size[g] > 0
       THEN /\ size' = [size EXCEPT ![g] = @ - 1]
            /\ inFlight' = [inFlight EXCEPT ![g] = @ + 1]
            /\ lastStarted' = [lastStarted EXCEPT ![g] = arrived[g] + 1]
            /\ UNCHANGED queue
       ELSE /\ queue' = [queue EXCEPT ![g] = Append(@, arrived[g] + 1)]
            /\ UNCHANGED <<size, inFlight, lastStarted>>
    /\ UNCHANGED <<settled, direct>>
    /\ UNCHANGED nonGateVars

\* release() registered with result.then(release) alone: a rejected call
\* leaves the gate without giving its permit back.
Release_OnlyOnFulfilled(g, end) ==
    /\ inFlight[g] > 0
    /\ settled' = [settled EXCEPT ![g] = @ + 1]
    /\ IF end = "rejected"
       THEN /\ inFlight' = [inFlight EXCEPT ![g] = @ - 1]
            /\ UNCHANGED <<size, queue, lastStarted>>
       ELSE IF queue[g] # <<>>
       THEN /\ queue' = [queue EXCEPT ![g] = Tail(@)]
            /\ lastStarted' = [lastStarted EXCEPT ![g] = Head(queue[g])]
            /\ UNCHANGED <<size, inFlight>>
       ELSE /\ size' = [size EXCEPT ![g] = @ + 1]
            /\ inFlight' = [inFlight EXCEPT ![g] = @ - 1]
            /\ UNCHANGED <<queue, lastStarted>>
    /\ UNCHANGED <<arrived, direct, calls>>
    /\ UNCHANGED nonGateVars

\* release() that pops the delayed call pushed last instead of shifting the first.
Release_Lifo(g, end) ==
    /\ inFlight[g] > 0
    /\ settled' = [settled EXCEPT ![g] = @ + 1]
    /\ IF queue[g] # <<>>
       THEN /\ queue' = [queue EXCEPT ![g] = SubSeq(@, 1, Len(@) - 1)]
            /\ lastStarted' = [lastStarted EXCEPT ![g] = queue[g][Len(queue[g])]]
            /\ UNCHANGED <<size, inFlight>>
       ELSE /\ size' = [size EXCEPT ![g] = @ + 1]
            /\ inFlight' = [inFlight EXCEPT ![g] = @ - 1]
            /\ UNCHANGED <<queue, lastStarted>>
    /\ UNCHANGED <<arrived, direct, calls>>
    /\ UNCHANGED nonGateVars

\* throat's release(), registered with result.then(release, release): size++,
\* and the first delayed call, if any, is shifted off the queue and run, which
\* takes the permit again and enters the wrapped function.
Release(g, end) ==
    /\ inFlight[g] > 0
    /\ settled' = [settled EXCEPT ![g] = @ + 1]
    /\ IF queue[g] # <<>>
       THEN /\ queue' = [queue EXCEPT ![g] = Tail(@)]
            /\ lastStarted' = [lastStarted EXCEPT ![g] = Head(queue[g])]
            /\ UNCHANGED <<size, inFlight>>
       ELSE /\ size' = [size EXCEPT ![g] = @ + 1]
            /\ inFlight' = [inFlight EXCEPT ![g] = @ - 1]
            /\ UNCHANGED <<queue, lastStarted>>
    /\ UNCHANGED <<arrived, direct, calls>>
    /\ UNCHANGED nonGateVars

\* a direct request that went through redirectUrl's gate would take a permit.
Direct_TakesPermit(h) ==
    /\ calls < MaxCalls
    /\ calls' = calls + 1
    /\ size["redirectUrl"] > 0
    /\ size' = [size EXCEPT !["redirectUrl"] = @ - 1]
    /\ direct' = direct + 1
    /\ UNCHANGED <<queue, arrived, lastStarted, settled, inFlight>>
    /\ UNCHANGED nonGateVars

\* canXhrSameOrigin, canXhrCache, dimensions and the Sxg rules call fetch()
\* or probe() themselves: the request is issued at once.
Direct(h) ==
    /\ calls < MaxCalls
    /\ calls' = calls + 1
    /\ direct' = direct + 1
    /\ UNCHANGED <<size, queue, arrived, lastStarted, settled, inFlight>>
    /\ UNCHANGED nonGateVars

\* a direct request ends
DirectEnd(h, end) ==
    /\ direct > 0
    /\ direct' = direct - 1
    /\ UNCHANGED <<size, queue, arrived, lastStarted, settled, inFlight, calls>>
    /\ UNCHANGED nonGateVars

(***************************************************************************)
(* The rule catalog: ampType() and the two testsForType().                 *)
(***************************************************************************)
\* enum LintType
LintType == {"Amp", "AmpStory", "Amp4Ads", "Amp4Email", "Sxg"}

\* an amp-story element of the document: is it inside <body>, does it carry
\* the standalone attribute
StoryElements == [inBody : BOOLEAN, standalone : BOOLEAN]

Documents == UNION { [1..n -> StoryElements] : n \in 0..MaxStories }

\* the type strings given to testsForType: the four the switch names, and two others
TypeArgs == {"auto", "sxg", "amp", "ampstory", "amp4ads", ""}

\* $("body amp-story[standalone]").length
BodyStandaloneStories(d) ==
    Cardinality({ k \in 1..Len(d) : d[k].inBody /\ d[k].standalone })

\* helper.ts ampType($)
ampType(d) == IF BodyStandaloneStories(d) = 1 THEN "AmpStory" ELSE "Amp"

\* index.ts of the rule classes: tests.set(LintType.Sxg, [...])
SxgTests ==
    << "SxgAmppkgIsForwarded", "SxgContentNegotiationIsOk", "SxgVaryOnAcceptAct",
       "SxgDumpSignedExchangeVerify" >>

\* tests.set(LintType.Amp, [...])
AmpTests ==
    << "LinkRelCanonicalIsOk", "AmpVideoIsSmall", "AmpVideoIsSpecifiedByAttribute",
       "MetaCharsetIsFirst", "RuntimeIsPreloaded", "AmpImgHeightWidthIsOk",
       "AmpImgAmpPixelPreferred", "EndpointsAreAccessibleFromOrigin",
       "EndpointsAreAccessibleFromCache" >>

\* the rules concat() appends for LintType.AmpStory
StoryOnlyTests ==
    << "BookendExists", "SchemaMetadataIsNews", "StoryRuntimeIsV1", "StoryMetadataIsV1",
       "StoryIsMostlyText", "StoryMetadataThumbnailsAreOk" >>

\* a story list that sets its own rules and drops the Amp list
AmpStoryTests_Override == StoryOnlyTests

\* tests.set(LintType.AmpStory, (tests.get(LintType.Amp) || []).concat([...]))
AmpStoryTests == AmpTests \o StoryOnlyTests

\* the map without its LintType.AmpStory entry: tests.get() gives undefined, so []
TestsGet_NoStoryEntry(t) ==
    CASE t = "Sxg"      -> SxgTests
      [] t = "Amp"      -> AmpTests
      [] OTHER          -> <<>>

\* tests.get(t) || []
TestsGet(t) ==
    CASE t = "Sxg"      -> SxgTests
      [] t = "Amp"      -> AmpTests
      [] t = "AmpStory" -> AmpStoryTests
      [] OTHER          -> <<>>

\* the switch with a default of its own that returns [], apart from case "auto"
testsForType_FailsClosed(ty, d) ==
    CASE ty = "sxg"      -> TestsGet("Sxg")
      [] ty = "amp"      -> TestsGet("Amp")
      [] ty = "ampstory" -> TestsGet("AmpStory")
      [] ty = "auto"     -> TestsGet(ampType(d))
      [] OTHER           -> <<>>

\* the switch of testsForType(type, $): case "auto" and default share one branch
testsForType(ty, d) ==
    CASE ty = "sxg"      -> TestsGet("Sxg")
      [] ty = "amp"      -> TestsGet("Amp")
      [] ty = "ampstory" -> TestsGet("AmpStory")
      [] OTHER           -> TestsGet(ampType(d))

\* amp-toolbox-linter/src/index.ts: the same map over the test functions
SxgTestsFn ==
    << "SxgAmppkgIsForwarded", "SxgContentNegotiationIsOk", "SxgVaryOnAcceptAct" >>

AmpTestsFn ==
    << "IsValid", "LinkRelCanonicalIsOk", "AmpVideoIsSmall",
       "AmpVideoIsSpecifiedByAttribute", "MetaCharsetIsFirst", "RuntimeIsPreloaded",
       "AmpImgHeightWidthIsOk", "AmpImgAmpPixelPreferred",
       "EndpointsAreAccessibleFromOrigin", "EndpointsAreAccessibleFromCache" >>

StoryOnlyTestsFn ==
    << "BookendAppearsOnCache", "BookendAppearsOnOrigin", "BookendExists",
       "SchemaMetadataIsNews", "StoryRuntimeIsV1", "StoryMetadataIsV1",
       "StoryIsMostlyText", "StoryMetadataThumbnailsAreOk" >>

AmpStoryTestsFn == AmpTestsFn \o StoryOnlyTestsFn

TestsGetFn(t) ==
    CASE t = "Sxg"      -> SxgTestsFn
      [] t = "Amp"      -> AmpTestsFn
      [] t = "AmpStory" -> AmpStoryTestsFn
      [] OTHER          -> <<>>

testsForTypeFn(ty, d) ==
    CASE ty = "sxg"      -> TestsGetFn("Sxg")
      [] ty = "amp"      -> TestsGetFn("Amp")
      [] ty = "ampstory" -> TestsGetFn("AmpStory")
      [] OTHER           -> TestsGetFn(ampType(d))

Impls == {"rules", "functions"}

\* const tests = testsForType(program.force, $)
SelectTests ==
    /\ selected = Null
    /\ selected' = IF impl = "rules" THEN testsForType(type, doc)
                                     ELSE testsForTypeFn(type, doc)
    /\ UNCHANGED <<impl, type, doc>>
    /\ UNCHANGED nonCatVars

(***************************************************************************)
(* The formatters: outputterForType() of cli.ts (src/unnamed/part_012) and *)
(* of index.ts.  A row is the sequence of its cells, a line the cells that *)
(* join(sep) puts on it; the rule name cell is a sequence of characters.   *)
(***************************************************************************)
\* the UTF-16 code unit of a character of the names' alphabet
CharCode(c) ==
    CASE c = "A" -> 65
      [] c = "B" -> 66
      [] c = "C" -> 67
      [] c = "a" -> 97
      [] c = "b" -> 98
      [] c = "c" -> 99
      [] c = "d" -> 100

\* the order Array.prototype.sort() puts two strings in: by code units
RECURSIVE KeyLess(_, _)
KeyLess(a, b) ==
    IF a = <<>> THEN b # <<>>
    ELSE IF b = <<>> THEN FALSE
    ELSE IF Head(a) = Head(b) THEN KeyLess(Tail(a), Tail(b))
    ELSE CharCode(Head(a)) < CharCode(Head(b))

\* Object.keys(data).sort()
RECURSIVE SortKeys(_)
SortKeys(S) ==
    IF S = {} THEN <<>>
    ELSE LET m == CHOOSE k \in S : \A j \in S \ {k} : KeyLess(k, j)
         IN  <<m>> \o SortKeys(S \ {m})

\* v.message || ""
MessageOrEmpty(v) ==
    IF v.message.t = "undefined" THEN "" ELSE v.message.s

\* the rows flatten() pushes for one key of the Report
RowsOf(k, v) ==
    IF v.t # "list" THEN << <<k, v.status, MessageOrEmpty(v)>> >>
    ELSE IF Len(v.items) = 0 THEN << <<k, "PASS", "">> >>
    ELSE [i \in 1..Len(v.items) |-> <<k, v.items[i].status, MessageOrEmpty(v.items[i])>>]

\* the lines index.ts's tsv outputter pushes for one key: join() writes an
\* undefined message as the empty string, and the PASS line has two cells
RowsOfFn(k, v) ==
    IF v.t # "list" THEN << <<k, v.status, MessageOrEmpty(v)>> >>
    ELSE IF Len(v.items) = 0 THEN << <<k, "PASS">> >>
    ELSE [i \in 1..Len(v.items) |-> <<k, v.items[i].status, MessageOrEmpty(v.items[i])>>]

HeaderRow == << <<"n", "a", "m", "e">>, "status", "message" >>

RECURSIVE FlattenKeys(_, _)
FlattenKeys(ks, d) ==
    IF ks = <<>> THEN <<>>
    ELSE RowsOf(Head(ks), d[Head(ks)]) \o FlattenKeys(Tail(ks), d)

RECURSIVE FlattenKeysFn(_, _)
FlattenKeysFn(ks, d) ==
    IF ks = <<>> THEN <<>>
    ELSE RowsOfFn(Head(ks), d[Head(ks)]) \o FlattenKeysFn(Tail(ks), d)

\* flatten(data) of part_012
flatten(d) == <<HeaderRow>> \o FlattenKeys(SortKeys(DOMAIN d), d)

\* rows.splice(1): removes every element after the first and returns them
splice1(rows) == SubSeq(rows, 2, Len(rows))

\* the global escape(): letters and digits are kept, other characters of the
\* model's messages are percent-encoded
escape(td) ==
    CASE td = "<link rel=canonical> not specified"
              -> "%3Clink%20rel%3Dcanonical%3E%20not%20specified"
      [] td = "[a] has no width" -> "%5Ba%5D%20has%20no%20width"
      [] td = "{}"     -> "%7B%7D"
      [] td = "\"\""   -> "%22%22"
      [] OTHER         -> td

\* <tr><td>escape(td)</td>...</tr> for one row
HtmlRow(r) == <<r[1], escape(r[2]), escape(r[3])>>

\* the rows of a text formatter that writes about each key of the Report
\* once: the first flattened row of the key
TextRows_FirstOfKey(d) ==
    LET ks == SortKeys(DOMAIN d)
    IN  [i \in 1..Len(ks) |-> RowsOf(ks[i], d[ks[i]])[1]]

\* the rows the text formatter maps to blocks: flatten(data).splice(1)
TextRows(d) == splice1(flatten(d))

\* one block: `${l[0]} (${l[1]})\n` and, unless l[1] == "PASS", "\n  ${l[2]}\n"
TextBlock(l) ==
    IF l[2] = "PASS" THEN [head |-> <<l[1], l[2]>>, body |-> ""]
    ELSE [head |-> <<l[1], l[2]>>, body |-> l[3]]

\* JSON.stringify of one Result: a property whose value is undefined is left out
JsonResult(v) ==
    IF v.message.t = "undefined" THEN [status |-> v.status]
    ELSE [status |-> v.status, message |-> v.message.s]

JsonValue(v) ==
    IF v.t = "list" THEN [i \in 1..Len(v.items) |-> JsonResult(v.items[i])]
    ELSE JsonResult(v)

Formats == {"tsv", "html", "json", "text"}

\* outputterForType(type)(data) of part_012
outputterForType(ty, d) ==
    CASE ty = "tsv"  -> [t |-> "tsv", lines |-> flatten(d)]
      [] ty = "html" -> [t |-> "html", tbody |-> [i \in 1..(Len(flatten(d)) - 1) |->
                                                     HtmlRow(splice1(flatten(d))[i])]]
      [] ty = "json" -> [t |-> "json", value |-> [k \in DOMAIN d |-> JsonValue(d[k])]]
      [] OTHER       -> [t |-> "text", blocks |-> [i \in 1..Len(TextRows(d)) |->
                                                      TextBlock(TextRows(d)[i])]]

\* outputterForType(type)(data) of index.ts: tsv, and json for everything else
outputterForTypeFn(ty, d) ==
    CASE ty = "tsv"  -> [t |-> "tsv",
                         lines |-> <<HeaderRow>> \o FlattenKeysFn(SortKeys(DOMAIN d), d)]
      [] OTHER       -> [t |-> "json", value |-> [k \in DOMAIN d |-> JsonValue(d[k])]]

\* the Results a list outcome is made of
ItemResults ==
    { Result("FAIL", Str("[a] has no width")),
      Result("WARN", Undefined) }

\* what one key of a Report may hold: a Result or a list of Results
ReportValues ==
    Outcomes
      \cup { Result("INTERNAL_ERROR", Str("{}")) }
      \cup { ResultList(l) : l \in UNION { [1..n -> ItemResults] : n \in 1..MaxList } }

ReportKeys == { <<"a", "b">>, <<"a">>, <<"c", "d">> }

Reports == UNION { [ks -> ReportValues] : ks \in SUBSET ReportKeys }

\* the function outputterForType returned is applied to a Report
FormatData ==
    /\ cliPc = "off"
    /\ output = Nothing
    /\ output' = IF impl = "rules" THEN outputterForType(format, data)
                                   ELSE outputterForTypeFn(format, data)
    /\ UNCHANGED <<cliPc, raw, format, data, stdout, stderr, exitCode>>
    /\ UNCHANGED nonCliVars

(***************************************************************************)
(* The command line: cli() and easyLint() of part_012 (impl "rules") and   *)
(* cli() of index.ts behind the entry point cli.ts (impl "functions").     *)
(***************************************************************************)
\* index.ts's lint: the synchronous part of tests.map(f => f(context).then(...)):
\* a throw of f leaves map() and lint's async body, so lint rejects
LaunchFn(i) ==
    /\ lintP.state = "pending"
    /\ launched = i - 1
    /\ i <= N
    /\ launched' = i
    /\ \/ \E e \in ThrownValues :
            /\ how' = [how EXCEPT ![i] = "threw"]
            /\ val' = [val EXCEPT ![i] = e]
            /\ lintP' = Rejected(e)
            /\ lastSettled' = i
            /\ UNCHANGED res
       \/ /\ how' = [how EXCEPT ![i] = "pending"]
          /\ UNCHANGED <<val, res, lintP, lastSettled>>
    /\ UNCHANGED tcs
    /\ UNCHANGED nonLintVars

\* index.ts's lint: the promise f(context) returned settles; there is no
\* catch, so a rejection rejects Promise.all and with it lint
SettleFn(i) ==
    /\ launched = N \/ lintP.state = "rejected"
    /\ i \in 1..N
    /\ how[i] = "pending"
    /\ \/ \E r \in Outcomes :
            /\ how' = [how EXCEPT ![i] = "returned"]
            /\ val' = [val EXCEPT ![i] = r]
            /\ res' = [res EXCEPT ![i] = Fulfilled(Returned(tcs[i], r))]
            /\ UNCHANGED lintP
       \/ \E e \in ThrownValues :
            /\ how' = [how EXCEPT ![i] = "rejected"]
            /\ val' = [val EXCEPT ![i] = e]
            /\ res' = [res EXCEPT ![i] = Rejected(e)]
            /\ lintP' = IF lintP.state = "pending" THEN Rejected(e) ELSE lintP
    /\ lastSettled' = i
    /\ UNCHANGED <<tcs, launched>>
    /\ UNCHANGED nonLintVars

\* how easyLint's raw (index.ts's body) can be rejected: a response that is
\* not ok, or a fetch that throws
FetchFailures ==
    { Str("couldn't load [url]: Not Found"), Str("couldn't load [url]") }

\* e.stack || e.message || e
StackOrMessage(e) ==
    CASE e.t = "error"  -> Str("Error: " \o e.message \o "\n    at ...")
      [] e.t = "string" -> e

\* The document is obtained, from stdin or by a fetch with an ok response:
\* the then() callback parses it, selects the tests and calls lint.
CliObtained ==
    /\ cliPc = "fetching"
    /\ raw.state = "pending"
    /\ raw' = Fulfilled(Str("<html>"))
    /\ cliPc' = "linting"
    /\ \E q \in RuleSets :
          /\ tcs' = q
          /\ how' = [i \in 1..Len(q) |-> "idle"]
          /\ val' = [i \in 1..Len(q) |-> Undefined]
          /\ res' = [i \in 1..Len(q) |-> Pending]
    /\ UNCHANGED <<launched, lintP, lastSettled>>
    /\ UNCHANGED <<format, data, output, stdout, stderr, exitCode>>
    /\ UNCHANGED <<gateVars, catVars, ctxVars, fxVars, ruleVars, tapVars, webVars>>

\* The document is not obtained: raw (body) is rejected with a string.
CliFetchFailed ==
    /\ cliPc = "fetching"
    /\ raw.state = "pending"
    /\ \E e \in FetchFailures : raw' = Rejected(e)
    /\ UNCHANGED <<cliPc, format, data, output, stdout, stderr, exitCode>>
    /\ UNCHANGED nonCliVars

\* lint resolved: the outputter's text goes to console.log
CliPrint ==
    /\ cliPc = "linting"
    /\ lintP.state = "fulfilled"
    /\ data' = lintP.value
    /\ output' = IF impl = "rules" THEN outputterForType(format, lintP.value)
                                   ELSE outputterForTypeFn(format, lintP.value)
    /\ stdout' = output'
    /\ cliPc' = "done"
    /\ UNCHANGED <<raw, format, stderr, exitCode>>
    /\ UNCHANGED nonCliVars

\* the rejection the chain's catch() receives, if any
ChainRejection ==
    IF raw.state = "rejected" THEN raw.reason ELSE lintP.reason

\* part_012's cli: .catch(e => { console.error(e.stack || e.message || e);
\* process.exitCode = 1; })
CliCatch ==
    /\ impl = "rules"
    /\ cliPc \in {"fetching", "linting"}
    /\ raw.state = "rejected" \/ lintP.state = "rejected"
    /\ stderr' = StackOrMessage(ChainRejection)
    /\ exitCode' = 1
    /\ cliPc' = "done"
    /\ UNCHANGED <<raw, format, data, output, stdout>>
    /\ UNCHANGED nonCliVars

\* index.ts's cli: .catch(e => console.error(`error:`, e)); the promise cli()
\* returns is then fulfilled, and the catch() of the entry point cli.ts,
\* which would set process.exitCode, is not called
CliCatchFn ==
    /\ impl = "functions"
    /\ cliPc \in {"fetching", "linting"}
    /\ raw.state = "rejected" \/ lintP.state = "rejected"
    /\ stderr' = [t |-> "logged", label |-> "error:", e |-> ChainRejection]
    /\ cliPc' = "done"
    /\ UNCHANGED <<raw, format, data, output, stdout, exitCode>>
    /\ UNCHANGED nonCliVars

(***************************************************************************)
(* The Context and the headers the helpers and rules send.  Objects are    *)
(* held by reference: "ctx" is the object context.headers refers to, "tmp" *)
(* the object a helper makes with a literal.  A helper's headers operator  *)
(* gives the heap after the helper's statements and the object it passes   *)
(* to fetch() or probe() as the request's headers.                         *)
(***************************************************************************)
\* the header names a Context may hold
HeaderNames == {"accept", "accept-encoding", "origin", "amp-same-origin", "user-agent"}

\* the header objects a Context is constructed with; "c" is a value given on the command line
ContextHeaders == UNION { [S -> {"c"}] : S \in SUBSET HeaderNames }

\* an object literal: a fresh object
ObjNew(hp, lit) == [hp EXCEPT !["tmp"] = lit]

\* Object.assign(target, src): src's properties are written to the object
\* target refers to, src's values replacing target's
ObjectAssign(hp, target, src) ==
    [hp EXCEPT ![target] =
        [k \in DOMAIN hp[target] \cup DOMAIN src |->
            IF k \in DOMAIN src THEN src[k] ELSE hp[target][k]]]

\* delete obj[k]
DeleteProp(hp, ref, k) ==
    [hp EXCEPT ![ref] = [x \in DOMAIN hp[ref] \ {k} |-> hp[ref][x]]]

\* fetch(s, { headers: context.headers }): the Context's own object is read
PassedAsIs(hp) == [heap |-> hp, ref |-> "ctx"]

\* dimensions with no copy: const headers = context.headers; delete headers[...]
dimensionsHeaders_NoCopy(hp) ==
    [heap |-> DeleteProp(hp, "ctx", "accept-encoding"), ref |-> "ctx"]

\* dimensions: Object.assign({}, context.headers); delete headers["accept-encoding"]
dimensionsHeaders(hp) ==
    [heap |-> DeleteProp(ObjectAssign(ObjNew(hp, EmptyHeaders), "tmp", hp["ctx"]),
                         "tmp", "accept-encoding"),
     ref  |-> "tmp"]

\* Object.assign(lit, context.headers) with lit an object literal, as in
\* canXhrSameOrigin and SxgContentNegotiationIsOk
AssignToLiteral(hp, lit) ==
    [heap |-> ObjectAssign(ObjNew(hp, lit), "tmp", hp["ctx"]), ref |-> "tmp"]

\* canXhrCache: Object.assign({}, { origin }, context.headers)
canXhrCacheHeaders(hp) ==
    [heap |-> ObjectAssign(ObjectAssign(ObjNew(hp, EmptyHeaders), "tmp",
                                        [x \in {"origin"} |-> "https://cdn.ampproject.org"]),
                           "tmp", hp["ctx"]),
     ref  |-> "tmp"]

\* the literals of SxgContentNegotiationIsOk's three requests
AcceptLiterals ==
    { [x \in {"accept"} |-> "text/html"],
      [x \in {"accept"} |-> "application/signed-exchange;v=b3"],
      [x \in {"accept", "amp-cache-transform"} |->
          IF x = "accept" THEN "application/signed-exchange;v=b3" ELSE "google;v=\"1\""] }

\* the helpers and rules that pass context.headers itself
PassingHelpers ==
    {"redirectUrl", "contentLength", "SxgVaryOnAcceptAct", "SxgAmppkgIsForwarded"}

\* a request is issued with the headers object r.ref of the heap r.heap
Issue(h, r) ==
    /\ heap' = r.heap
    /\ sent' = [helper |-> h, headers |-> r.heap[r.ref]]
    /\ UNCHANGED <<context, built>>
    /\ UNCHANGED nonCtxVars

RequestAsIs(h) == Issue(h, PassedAsIs(heap))

RequestDimensions == Issue("dimensions", dimensionsHeaders(heap))

RequestSameOrigin ==
    Issue("canXhrSameOrigin",
          AssignToLiteral(heap, [x \in {"amp-same-origin"} |-> "true"]))

RequestCache == Issue("canXhrCache", canXhrCacheHeaders(heap))

RequestNegotiation(lit) ==
    Issue("SxgContentNegotiationIsOk", AssignToLiteral(heap, lit))

(***************************************************************************)
(* The fixture harness: withFixture = throat(1, async (fixtureName, fn))   *)
(* of tests/lib.ts.  An operation is queued, or in its body: setup (mode   *)
(* set, nockBack(fixturePath) awaited), fn (fn() awaited), delay (the      *)
(* setTimeout of the record branch pending); then done or failed, as the   *)
(* promise withFixture returned is fulfilled or rejected.                  *)
(***************************************************************************)
FixtureNames == {"amp", "story"}

\* what fn's promise may settle with
FnResults ==
    { Fulfilled(Str("a")), Fulfilled(Str("b")), Rejected(ErrorObj("request failed")) }

\* a call of withFixture(name, fn) that throat has not started
NewOp(name) ==
    [name |-> name, pc |-> "queued", branch |-> "none", fn |-> Pending,
     ret |-> Pending, nockDone |-> 0, waited |-> FALSE]

\* a harness that records whether the fixture file exists or not
ModeOf_AlwaysRecord(branch) == "record"

\* nockBack.setMode("lockdown") in the branch of an existing file, setMode("record") in the other
ModeOf(branch) == IF branch = "replay" THEN "lockdown" ELSE "record"

\* the body up to its first await: existsSync picks the branch, the branch
\* sets the mode and calls nockBack(fixturePath)
Begin(o, fs) ==
    [o EXCEPT !.pc = "setup",
              !.branch = IF o.name \in fs THEN "replay" ELSE "record"]

\* throat's release, called when the body's promise has settled: the next
\* queued call is run at once, or the permit is given back.  ops1 and fs1
\* are the operations and the files after the settling step.
FxRelease(ops1, fs1) ==
    /\ files' = fs1
    /\ IF fxQueue = <<>>
       THEN /\ ops' = ops1
            /\ fxSize' = fxSize + 1
            /\ UNCHANGED <<fxQueue, mode>>
       ELSE LET n == Head(fxQueue)
            IN  /\ ops' = [ops1 EXCEPT ![n] = Begin(ops1[n], fs1)]
                /\ mode' = ModeOf(Begin(ops1[n], fs1).branch)
                /\ fxQueue' = Tail(fxQueue)
                /\ UNCHANGED fxSize

\* withFixture without throat: every call's body starts when it is called
FxCall_NoLimit(name) ==
    /\ Len(ops) < MaxOps
    /\ ops' = Append(ops, Begin(NewOp(name), files))
    /\ mode' = ModeOf(Begin(NewOp(name), files).branch)
    /\ UNCHANGED <<fxSize, fxQueue, files>>
    /\ UNCHANGED nonFxVars

\* withFixture(name, fn) is called: throat runs the body if its permit is
\* free and queues the call otherwise
FxCall(name) ==
    /\ Len(ops) < MaxOps
    /\ IF fxSize > 0
       THEN /\ fxSize' = fxSize - 1
            /\ ops' = Append(ops, Begin(NewOp(name), files))
            /\ mode' = ModeOf(Begin(NewOp(name), files).branch)
            /\ UNCHANGED fxQueue
       ELSE /\ ops' = Append(ops, NewOp(name))
            /\ fxQueue' = Append(fxQueue, Len(ops) + 1)
            /\ UNCHANGED <<fxSize, mode>>
    /\ UNCHANGED files
    /\ UNCHANGED nonFxVars

\* `await nockBack(fixturePath)` resumes and fn() is called
FxScope(i) ==
    /\ i \in 1..Len(ops)
    /\ ops[i].pc = "setup"
    /\ ops' = [ops EXCEPT ![i].pc = "fn"]
    /\ UNCHANGED <<fxSize, fxQueue, mode, files>>
    /\ UNCHANGED nonFxVars

\* a harness that catches fn's rejection and returns undefined
FxFnSettle_SwallowsRejection(i, r) ==
    /\ i \in 1..Len(ops)
    /\ ops[i].pc = "fn"
    /\ IF r.state = "rejected"
       THEN FxRelease([ops EXCEPT ![i].fn = r, ![i].ret = Fulfilled(Undefined),
                                  ![i].pc = "done"], files)
       ELSE IF ops[i].branch = "replay"
       THEN FxRelease([ops EXCEPT ![i].fn = r, ![i].ret = r, ![i].pc = "done",
                                  ![i].nockDone = @ + 1], files)
       ELSE /\ ops' = [ops EXCEPT ![i].fn = r, ![i].pc = "delay"]
            /\ UNCHANGED <<fxSize, fxQueue, mode, files>>
    /\ UNCHANGED nonFxVars

\* a record branch like the replay branch: nockDone() and return res at once
FxFnSettle_NoDelay(i, r) ==
    /\ i \in 1..Len(ops)
    /\ ops[i].pc = "fn"
    /\ IF r.state = "rejected"
       THEN FxRelease([ops EXCEPT ![i].fn = r, ![i].ret = r, ![i].pc = "failed"], files)
       ELSE FxRelease([ops EXCEPT ![i].fn = r, ![i].ret = r, ![i].pc = "done",
                                  ![i].nockDone = @ + 1],
                      IF ops[i].branch = "record" THEN files \cup {ops[i].name} ELSE files)
    /\ UNCHANGED nonFxVars

\* `await fn()` resumes.  fn rejected: the body's promise rejects.  fn
\* fulfilled, replay branch: nockDone(); return res.  fn fulfilled, record
\* branch: the body returns a promise that a timer of 2000 ms will resolve.
FxFnSettle(i, r) ==
    /\ i \in 1..Len(ops)
    /\ ops[i].pc = "fn"
    /\ IF r.state = "rejected"
       THEN FxRelease([ops EXCEPT ![i].fn = r, ![i].ret = r, ![i].pc = "failed"], files)
       ELSE IF ops[i].branch = "replay"
       THEN FxRelease([ops EXCEPT ![i].fn = r, ![i].ret = r, ![i].pc = "done",
                                  ![i].nockDone = @ + 1], files)
       ELSE /\ ops' = [ops EXCEPT ![i].fn = r, ![i].pc = "delay"]
            /\ UNCHANGED <<fxSize, fxQueue, mode, files>>
    /\ UNCHANGED nonFxVars

\* the timer fires: nockDone() writes the fixture file, resolve(res)
FxTimer(i) ==
    /\ i \in 1..Len(ops)
    /\ ops[i].pc = "delay"
    /\ FxRelease([ops EXCEPT ![i].ret = ops[i].fn, ![i].pc = "done",
                             ![i].nockDone = @ + 1, ![i].waited = TRUE],
                 files \cup {ops[i].name})
    /\ UNCHANGED nonFxVars

(***************************************************************************)
(* The test functions of amp-toolbox-linter/src/index.ts that make network *)
(* requests.  A test function is given as an operator of its input and of  *)
(* the promises of the requests it has issued so far: it tells how many    *)
(* requests the function has issued by then and what has become of the     *)
(* promise it returned.  URLs are records of an origin and a path, the     *)
(* value of an href or src attribute is such a URL, a path, or empty.      *)
(***************************************************************************)
Origins == {"https://a.example", "https://b.example"}

Paths == {"/", "/story"}

Url(origin, path) == [t |-> "url", origin |-> origin, path |-> path]

Urls == {Url(o, p) : o \in Origins, p \in Paths}

\* the url of the Context
CtxUrls == {Url("https://a.example", p) : p \in Paths}

\* attribute values: an absolute URL, a path from the root, the empty string
AbsoluteHref(origin, path) == [t |-> "href", kind |-> "absolute", origin |-> origin, path |-> path]

RootedHref(path) == [t |-> "href", kind |-> "rooted", origin |-> "", path |-> path]

EmptyHref == [t |-> "href", kind |-> "empty", origin |-> "", path |-> ""]

\* what $(...).attr("href") may give: undefined when there is no such element
Hrefs ==
    {Undefined, EmptyHref}
        \cup {AbsoluteHref(o, p) : o \in Origins, p \in Paths}
        \cup {RootedHref(p) : p \in Paths}

\* the text of a URL or of an attribute value, as a template string shows it
Text(u) == IF u.t = "undefined" THEN "undefined" ELSE u.origin \o u.path

\* url.resolve(base, s)
resolve(base, s) ==
    CASE s.kind = "absolute" -> Url(s.origin, s.path)
      [] s.kind = "rooted"   -> Url(base.origin, s.path)
      [] s.kind = "empty"    -> base

\* absoluteUrl(s, base): undefined unless both are strings
absoluteUrl(s, base) ==
    IF s.t = "undefined" \/ base.t = "undefined" THEN Undefined ELSE resolve(base, s)

\* !s for an attribute value: undefined and "" are falsy
Falsy(s) == s.t = "undefined" \/ (s.t = "href" /\ s.kind = "empty")

PASS == Result("PASS", Undefined)

FAIL(s) == Result("FAIL", Str(s))

WARN(s) == Result("WARN", Str(s))

\* const notPass = (m) => m.status !== "PASS"
notPass(m) == m.status # "PASS"

\* what a test function has done: the number of requests issued, its promise
Ran(issued, out) == [issued |-> issued, out |-> out]

IsPending(rs, k) == k > Len(rs) \/ rs[k].state = "pending"

\* a fetch that fails: node-fetch rejects with a FetchError
FetchError == ErrorObj("request failed")

\* a Response: ok, and the content-type and vary headers (get() gives null
\* for a header the response does not have)
NullHeader == "null"

Response(ok, contentType, vary) ==
    [t |-> "response", ok |-> ok, contentType |-> contentType, vary |-> vary]

ContentTypes == {NullHeader, "text/html", "application/signed-exchange;v=b3", "application/cbor"}

\* a Vary header is the sequence of the values its commas separate
VaryHeaders == {NullHeader, "Accept", "AMP-Cache-Transform, Accept"}

Responses == {Response(ok, ct, v) : ok \in BOOLEAN, ct \in ContentTypes, v \in VaryHeaders}

\* redirectUrl(context, s): res.url of whatever response arrives, or the
\* rejection of fetch
RedirectOutcomes == {Fulfilled(u) : u \in Urls} \cup {Rejected(FetchError)}

\* LinkRelCanonicalIsOk without its try/catch
LinkRelCanonicalIsOk_NoCatch(in, rs) ==
    IF Falsy(in.canonical)
    THEN Ran(0, Fulfilled(FAIL("<link rel=canonical> not specified")))
    ELSE IF in.url # absoluteUrl(in.canonical, in.url)
    THEN Ran(0, Fulfilled(FAIL("actual: " \o Text(absoluteUrl(in.canonical, in.url))
                                \o ", expected: " \o Text(in.url))))
    ELSE IF IsPending(rs, 1)
    THEN Ran(1, Pending)
    ELSE IF rs[1].state = "rejected"
    THEN Ran(1, Rejected(rs[1].reason))
    ELSE IF rs[1].value = in.url
    THEN Ran(1, Fulfilled(PASS))
    ELSE Ran(1, Fulfilled(FAIL("actual: " \o Text(rs[1].value) \o ", expected: " \o Text(in.url))))

\* LinkRelCanonicalIsOk(context)
LinkRelCanonicalIsOk(in, rs) ==
    IF Falsy(in.canonical)
    THEN Ran(0, Fulfilled(FAIL("<link rel=canonical> not specified")))
    ELSE IF in.url # absoluteUrl(in.canonical, in.url)
    THEN Ran(0, Fulfilled(FAIL("actual: " \o Text(absoluteUrl(in.canonical, in.url))
                                \o ", expected: " \o Text(in.url))))
    ELSE IF IsPending(rs, 1)
    THEN Ran(1, Pending)
    ELSE IF rs[1].state = "rejected"
    THEN Ran(1, Fulfilled(FAIL("couldn't retrieve canonical " \o Text(in.url))))
    ELSE IF rs[1].value = in.url
    THEN Ran(1, Fulfilled(PASS))
    ELSE Ran(1, Fulfilled(FAIL("actual: " \o Text(rs[1].value) \o ", expected: " \o Text(in.url))))

\* a JavaScript number
Num(n) == [t |-> "number", n |-> n]

\* the text of the numbers the model's messages show
NumText(n) ==
    CASE n = 1   -> "1"
      [] n = 2   -> "2"
      [] n = 50  -> "50"
      [] n = 100 -> "100"
      [] n = 200 -> "200"
      [] n = 300 -> "300"
      [] n = 404 -> "404"

\* parseInt(s, 10) of an attribute value
parseInt(s) ==
    CASE s = "100" -> 100
      [] s = "200" -> 200

\* an element with a src attribute, and the width and height attributes of an amp-img
Element(src, width, height) == [src |-> src, width |-> width, height |-> height]

Srcs == {RootedHref("/1"), AbsoluteHref("https://b.example", "/2")}

VideoElements == {Element(s, "100", "100") : s \in Srcs}

ImgElements == {Element(s, w, "100") : s \in Srcs, w \in {"100", "200"}}

\* the sequences over S of length 0..n
SeqsUpTo(S, n) == UNION {[1..k -> S] : k \in 0..n}

\* Array.prototype.join(sep) of strings
RECURSIVE Join(_, _)
Join(strs, sep) ==
    IF Len(strs) = 0 THEN ""
    ELSE IF Len(strs) = 1 THEN strs[1]
    ELSE strs[1] \o sep \o Join(Tail(strs), sep)

\* the promises of ps that are rejected, in the order they settled
RejectedIn(ps, done) == SelectSeq(done, LAMBDA k : ps[k].state = "rejected")

\* Promise.all that collects the values in the order the promises settled
PromiseAll_InSettleOrder(ps, done) ==
    IF RejectedIn(ps, done) # <<>>
    THEN Rejected(ps[RejectedIn(ps, done)[1]].reason)
    ELSE IF \E k \in 1..Len(ps) : ps[k].state = "pending"
    THEN Pending
    ELSE Fulfilled([k \in 1..Len(ps) |-> ps[done[k]].value])

\* Promise.all(ps), done the order the promises settled in: rejected with the
\* reason of the first promise to reject, else fulfilled, once none is pending,
\* with the values in the order of ps
PromiseAll(ps, done) ==
    IF RejectedIn(ps, done) # <<>>
    THEN Rejected(ps[RejectedIn(ps, done)[1]].reason)
    ELSE IF \E k \in 1..Len(ps) : ps[k].state = "pending"
    THEN Pending
    ELSE Fulfilled([k \in 1..Len(ps) |-> ps[k].value])

\* every element's request has been issued by the synchronous map(); rs may
\* be shorter than the elements when the function has only just been called
PromiseOf(rs, k) == IF k > Len(rs) THEN Pending ELSE rs[k]

\* contentLength(context, s): the content-length header or 0 of an ok
\* response; Promise.reject(res) for a response that is not ok; the rejection
\* of fetch
ContentLengths == {Num(0), Num(4000000), Num(5000000)}

ContentLengthOutcomes ==
    {Fulfilled(n) : n \in ContentLengths}
        \cup {Rejected(Response(FALSE, NullHeader, NullHeader)), Rejected(FetchError)}

\* the async callback of AmpVideoIsSmall's map() for element e: { url, length }
VideoArg(in, e, p) ==
    IF p.state = "fulfilled"
    THEN Fulfilled([url |-> absoluteUrl(e.src, in.url), length |-> p.value])
    ELSE p

\* args.reduce((a, v) => { a[v.url] = v.length; return a; }, {}): an object
\* is the sequence of its entries in the order the keys were first written
RECURSIVE VideosOf(_)
VideosOf(args) ==
    IF args = <<>> THEN <<>>
    ELSE LET a == VideosOf(SubSeq(args, 1, Len(args) - 1))
             v == args[Len(args)]
         IN  IF \E k \in 1..Len(a) : a[k].url = v.url
             THEN [k \in 1..Len(a) |-> IF a[k].url = v.url THEN v ELSE a[k]]
             ELSE Append(a, v)

\* Object.keys(videos).filter(v => videos[v] > 4000000)
LargeVideos(videos) ==
    LET large == SelectSeq(videos, LAMBDA v : v.length.n > 4000000)
    IN  [k \in 1..Len(large) |-> Text(large[k].url)]

\* AmpVideoIsSmall(context): no try/catch around the await of Promise.all
AmpVideoIsSmall(in, rs, done) ==
    LET n    == Len(in.elems)
        args == PromiseAll([k \in 1..n |-> VideoArg(in, in.elems[k], PromiseOf(rs, k))], done)
    IN  IF args.state = "rejected" THEN Ran(n, Rejected(args.reason))
        ELSE IF args.state = "pending" THEN Ran(n, Pending)
        ELSE IF Len(LargeVideos(VideosOf(args.value))) > 0
        THEN Ran(n, Fulfilled(FAIL("videos over 4MB: ["
                                   \o Join(LargeVideos(VideosOf(args.value)), ",") \o "]")))
        ELSE Ran(n, Fulfilled(PASS))

\* what probe() of dimensions() gives: width and height
Dims(width, height) == [t |-> "dimensions", width |-> width, height |-> height]

\* a probe error that carries the status of the response
ProbeError(statusCode) == [t |-> "probe error", statusCode |-> statusCode]

DimensionsOutcomes ==
    {Fulfilled(Dims(100, 100)), Fulfilled(Dims(200, 100)), Fulfilled(Dims(300, 300)),
     Fulfilled(Dims(50, 50)), Rejected(ProbeError(404)), Rejected(ErrorObj("ECONNRESET"))}

\* Math.floor((width * 100) / height), the ratio in hundredths
Ratio100(width, height) == (width * 100) \div height

Abs(x, y) == IF x >= y THEN x - y ELSE y - x

\* the text of a ratio given in hundredths
RatioText(r) ==
    CASE r = 100 -> "1"
      [] r = 200 -> "2"

\* success({ height, width }) of test(src, expectedWidth, expectedHeight)
success(src, expectedWidth, expectedHeight, d) ==
    LET actualRatio    == Ratio100(d.width, d.height)
        expectedRatio  == Ratio100(expectedWidth, expectedHeight)
        actualVolume   == d.width * d.height
        expectedVolume == expectedWidth * expectedHeight
    IN  IF Abs(actualRatio, expectedRatio) * 10 > 15
        THEN FAIL("[" \o Text(src) \o "]: actual ratio ["
                  \o NumText(d.width) \o "/" \o NumText(d.height) \o " = " \o RatioText(actualRatio)
                  \o "] does not match specified ["
                  \o NumText(expectedWidth) \o "/" \o NumText(expectedHeight) \o " = "
                  \o RatioText(expectedRatio) \o "]")
        ELSE IF 4 * expectedVolume < actualVolume
        THEN WARN("[" \o Text(src) \o "]: actual dimensions ["
                  \o NumText(d.width) \o "x" \o NumText(d.height)
                  \o "] are much larger than specified ["
                  \o NumText(expectedWidth) \o "x" \o NumText(expectedHeight) \o "]")
        ELSE IF 2 * expectedVolume > 3 * actualVolume
        THEN WARN("[" \o Text(src) \o "]: actual dimensions ["
                  \o NumText(d.width) \o "x" \o NumText(d.height)
                  \o "] are much smaller than specified ["
                  \o NumText(expectedWidth) \o "x" \o NumText(expectedHeight) \o "]")
        ELSE PASS

\* fail(e) of test(): e.statusCode === undefined ? ... : ...
fail(src, e) ==
    IF e.t # "probe error"
    THEN FAIL("[" \o Text(src) \o "] " \o JSONstringify(e).s)
    ELSE FAIL("[" \o Text(src) \o "] returned status " \o NumText(e.statusCode))

\* test() with dimensions(...).then(success): a failed probe rejects
test_NoFail(e, p) ==
    CASE p.state = "pending"   -> Pending
      [] p.state = "fulfilled" -> Fulfilled(success(e.src, parseInt(e.width), parseInt(e.height), p.value))
      [] p.state = "rejected"  -> p

\* test(src, expectedWidth, expectedHeight) for the element e, p the promise
\* dimensions() returned: dimensions(...).then(success, fail)
test(e, p) ==
    CASE p.state = "pending"   -> Pending
      [] p.state = "fulfilled" -> Fulfilled(success(e.src, parseInt(e.width), parseInt(e.height), p.value))
      [] p.state = "rejected"  -> Fulfilled(fail(e.src, p.reason))

\* AmpImgHeightWidthIsOk(context): (await Promise.all(...)).filter(notPass)
AmpImgHeightWidthIsOk(in, rs, done) ==
    LET n   == Len(in.elems)
        all == PromiseAll([k \in 1..n |-> test(in.elems[k], PromiseOf(rs, k))], done)
    IN  IF all.state = "rejected" THEN Ran(n, Rejected(all.reason))
        ELSE IF all.state = "pending" THEN Ran(n, Pending)
        ELSE Ran(n, Fulfilled(ResultList(SelectSeq(all.value, notPass))))

\* fetchToCurl(url, { headers }) for a Context without headers
fetchToCurl(url, h) == "curl -i " \o h \o " '" \o url \o "'"

\* ("" + res.headers.get("vary")).split(",").map(s => s.toLowerCase().trim())
VaryValues(v) ==
    CASE v = NullHeader                    -> <<"null">>
      [] v = "Accept"                      -> <<"accept">>
      [] v = "AMP-Cache-Transform, Accept" -> <<"amp-cache-transform", "accept">>

\* Array.prototype.includes
includes(s, x) == \E k \in 1..Len(s) : s[k] = x

\* what fetch() may settle with
FetchOutcomes == {Fulfilled(r) : r \in Responses} \cup {Rejected(FetchError)}

\* SxgVaryOnAcceptAct({ url, headers }): `await fetch(url, { headers })` is not in a try
SxgVaryOnAcceptAct(in, rs) ==
    LET debug == "debug: " \o fetchToCurl(Text(in.url), "")
    IN  IF IsPending(rs, 1) THEN Ran(1, Pending)
        ELSE IF rs[1].state = "rejected" THEN Ran(1, Rejected(rs[1].reason))
        ELSE IF Len(VaryValues(rs[1].value.vary)) = 0
        THEN Ran(1, Fulfilled(FAIL("[Vary] header is missing [" \o debug \o "]")))
        ELSE IF ~includes(VaryValues(rs[1].value.vary), "amp-cache-transform")
        THEN Ran(1, Fulfilled(FAIL("[Vary] header is missing value [AMP-Cache-Transform] ["
                                   \o debug \o "]")))
        ELSE IF ~includes(VaryValues(rs[1].value.vary), "accept")
        THEN Ran(1, Fulfilled(FAIL("[Vary] header is missing value [Accept] [" \o debug \o "]")))
        ELSE Ran(1, Fulfilled(PASS))

\* (res.headers.get("content-type") || "").indexOf("application/signed-exchange") !== -1
IsSignedExchange(r) == r.contentType = "application/signed-exchange;v=b3"

\* SxgContentNegotiationIsOk({ url, headers }): three fetches, one after the
\* other, none in a try
SxgContentNegotiationIsOk(in, rs) ==
    IF IsPending(rs, 1) THEN Ran(1, Pending)
    ELSE IF rs[1].state = "rejected" THEN Ran(1, Rejected(rs[1].reason))
    ELSE IF IsSignedExchange(rs[1].value)
    THEN Ran(1, Fulfilled(FAIL(
             "[Content-Type: application/signed-exchange] incorrectly returned for [Accept: text/html] [debug: "
             \o fetchToCurl(Text(in.url), "-H 'accept: text/html'") \o "]")))
    ELSE IF IsPending(rs, 2) THEN Ran(2, Pending)
    ELSE IF rs[2].state = "rejected" THEN Ran(2, Rejected(rs[2].reason))
    ELSE IF IsSignedExchange(rs[2].value)
    THEN Ran(2, Fulfilled(FAIL(
             "[Content-Type: application/signed-exchange] incorrectly returned for [Accept: application/signed-exchange;v=b3] [debug: "
             \o fetchToCurl(Text(in.url), "-H 'accept: application/signed-exchange;v=b3'") \o "]")))
    ELSE IF IsPending(rs, 3) THEN Ran(3, Pending)
    ELSE IF rs[3].state = "rejected" THEN Ran(3, Rejected(rs[3].reason))
    ELSE IF ~IsSignedExchange(rs[3].value)
    THEN Ran(3, Fulfilled(FAIL(
             "[Content-Type: application/signed-exchange] not returned for [Accept: application/signed-exchange;v=b3], [AMP-Cache-Transform: google;v=\"1\"] [debug: "
             \o fetchToCurl(Text(in.url),
                            "-H 'accept: application/signed-exchange;v=b3' -H 'amp-cache-transform: google;v=\"1\"'")
             \o "]")))
    ELSE Ran(3, Fulfilled(PASS))

\* SxgAmppkgIsForwarded({ url, headers }): the fetch of /amppkg/validity is not in a try
SxgAmppkgIsForwarded(in, rs) ==
    LET validity == in.url.origin \o "/amppkg/validity"
    IN  IF IsPending(rs, 1) THEN Ran(1, Pending)
        ELSE IF rs[1].state = "rejected" THEN Ran(1, Rejected(rs[1].reason))
        ELSE IF rs[1].value.ok /\ rs[1].value.contentType = "application/cbor"
        THEN Ran(1, Fulfilled(PASS))
        ELSE Ran(1, Fulfilled(FAIL("/amppkg/ not forwarded to amppackager [debug: "
                                   \o fetchToCurl(validity, "") \o "]")))

\* the test functions of the model
NetworkTests ==
    {"LinkRelCanonicalIsOk", "AmpVideoIsSmall", "AmpImgHeightWidthIsOk",
     "SxgVaryOnAcceptAct", "SxgContentNegotiationIsOk", "SxgAmppkgIsForwarded"}

\* what the test function f reads of its Context
TestInput(url, canonical, elems) == [url |-> url, canonical |-> canonical, elems |-> elems]

InputsOf(f) ==
    CASE f = "LinkRelCanonicalIsOk"  -> {TestInput(u, c, <<>>) : u \in CtxUrls, c \in Hrefs}
      [] f = "AmpVideoIsSmall"       ->
            {TestInput(u, Undefined, es) : u \in CtxUrls, es \in SeqsUpTo(VideoElements, MaxElems)}
      [] f = "AmpImgHeightWidthIsOk" ->
            {TestInput(u, Undefined, es) : u \in CtxUrls, es \in SeqsUpTo(ImgElements, MaxElems)}
      [] OTHER                       -> {TestInput(u, Undefined, <<>>) : u \in CtxUrls}

\* what the promise of a request of f may settle with
OutcomesOf(f) ==
    CASE f = "LinkRelCanonicalIsOk"  -> RedirectOutcomes
      [] f = "AmpVideoIsSmall"       -> ContentLengthOutcomes
      [] f = "AmpImgHeightWidthIsOk" -> DimensionsOutcomes
      [] OTHER                       -> FetchOutcomes

\* the test function f, given the promises rs of its requests and the order
\* done they settled in
TestFn(f, in, rs, done) ==
    CASE f = "LinkRelCanonicalIsOk"      -> LinkRelCanonicalIsOk(in, rs)
      [] f = "AmpVideoIsSmall"           -> AmpVideoIsSmall(in, rs, done)
      [] f = "AmpImgHeightWidthIsOk"     -> AmpImgHeightWidthIsOk(in, rs, done)
      [] f = "SxgVaryOnAcceptAct"        -> SxgVaryOnAcceptAct(in, rs)
      [] f = "SxgContentNegotiationIsOk" -> SxgContentNegotiationIsOk(in, rs)
      [] f = "SxgAmppkgIsForwarded"      -> SxgAmppkgIsForwarded(in, rs)

\* the requests rs and those issued since, which are pending
WithIssued(rs, issued) == [k \in 1..issued |-> IF k <= Len(rs) THEN rs[k] ELSE Pending]

\* f(context) is called: the function runs up to its first await, or to its return
CallTest ==
    /\ rule \in NetworkTests
    /\ rout = Nothing
    /\ reqs' = WithIssued(<<>>, TestFn(rule, rin, <<>>, <<>>).issued)
    /\ rout' = TestFn(rule, rin, <<>>, <<>>).out
    /\ UNCHANGED <<rule, rin, completed>>
    /\ UNCHANGED nonRuleVars

\* the promise of request k settles with o, and the function goes on from the
\* await that waited for it: to its next request, or to the end
RequestSettles(k, o) ==
    /\ rule \in NetworkTests
    /\ rout # Nothing
    /\ k \in 1..Len(reqs)
    /\ reqs[k].state = "pending"
    /\ o \in OutcomesOf(rule)
    /\ LET rs   == [reqs EXCEPT ![k] = o]
           done == Append(completed, k)
           ran  == TestFn(rule, rin, rs, done)
       IN  /\ reqs' = WithIssued(rs, ran.issued)
           /\ completed' = done
           /\ rout' = IF rout.state = "pending" THEN ran.out ELSE rout
    /\ UNCHANGED <<rule, rin>>
    /\ UNCHANGED nonRuleVars

(***************************************************************************)
(* The local fixture runners of amp-story/linter/tests/local.ts: the loop  *)
(* over the directories of readdirSync, whose async callbacks run up to    *)
(* `await run(prefix)` inside forEach, then the plan line, then the        *)
(* callbacks' continuations in the order the run() promises settle.        *)
(***************************************************************************)
\* the first runner (lines 55-88) and the second (lines 160-177)
Versions == {1, 2}

\* diff(expected, actual): the number of parts of the diff
DiffParts(n) == [t |-> "diff", length |-> n]

\* what run(prefix) may settle with: undefined for a directory it skips, a
\* diff of one part when actual is as expected, a diff of more parts, or
\* the rejection of the test function
RunResults ==
    {Fulfilled(Undefined), Fulfilled(DiffParts(1)), Fulfilled(DiffParts(3)),
     Rejected(ErrorObj("boom"))}

\* console.log(`1..${COUNT}`)
PlanLine(n) == [kind |-> "plan", n |-> n, dir |-> 0]

\* console.log(`ok ${count} - ...`) or `not ok ${count} - ...` for directory d
ResultLine(ok, n, d) == [kind |-> IF ok THEN "ok" ELSE "not ok", n |-> n, dir |-> d]

\* the script's synchronous part: forEach calls the callback of every
\* directory, each incrementing the counter (the first runner keeps the new
\* value in its own `const count`) and running up to its await; then the
\* plan line is written
TapLoop ==
    /\ version \in Versions
    /\ tapOut = <<>>
    /\ COUNT' = COUNT + dirs
    /\ counts' = IF version = 1 THEN [d \in 1..dirs |-> COUNT + d] ELSE <<>>
    /\ tapSt' = [d \in 1..dirs |-> "awaiting"]
    /\ tapOut' = <<PlanLine(COUNT')>>
    /\ UNCHANGED <<version, dirs>>
    /\ UNCHANGED nonTapVars

\* `await run(prefix)` of directory d's callback resumes with r: the result
\* line is written with `count`, which is the callback's own constant in the
\* first runner and the shared variable in the second.  A rejection leaves
\* the callback without a line.
TapResume(d, r) ==
    /\ version \in Versions
    /\ d \in 1..Len(tapSt)
    /\ tapSt[d] = "awaiting"
    /\ r \in RunResults
    /\ IF r.state = "rejected"
       THEN /\ tapSt' = [tapSt EXCEPT ![d] = "rejected"]
            /\ UNCHANGED tapOut
       ELSE /\ tapSt' = [tapSt EXCEPT ![d] = "printed"]
            /\ tapOut' = Append(tapOut,
                  ResultLine(r.value.t = "diff" /\ r.value.length = 1,
                             IF version = 1 THEN counts[d] ELSE COUNT,
                             d))
    /\ UNCHANGED <<version, dirs, COUNT, counts>>
    /\ UNCHANGED nonTapVars

(***************************************************************************)
(* The /lint handler of the App Engine front end (amp-story/gae): it       *)
(* fetches the document, calls the lint of amp-toolbox-linter and sends a  *)
(* summary or the results page.                                            *)
(***************************************************************************)
\* req.query: url and type
Queries ==
    [url : {Undefined, Str("https://a.example/")},
     type : {Undefined, Str("summary"), Str("html")}]

WebResponse(status, contentType, body) ==
    [status |-> status, contentType |-> contentType, body |-> body]

\* Object.keys(r).filter(k => isArray(r[k]) ? r[k].length > 0 : r[k].status === "FAIL")
failures(r) ==
    {k \in DOMAIN r : IF r[k].t = "list" THEN Len(r[k].items) > 0 ELSE r[k].status = "FAIL"}

\* failures.length === 0 ? "PASS" : "FAIL"
summary(r) == IF failures(r) = {} THEN "PASS" ELSE "FAIL"

\* the content the then() callback sends for the Report r
content(q, r) ==
    IF q.type = Str("summary")
    THEN Str(summary(r))
    ELSE [t |-> "page", url |-> q.url, body |-> outputterForTypeFn("html", r)]

\* the body of the error responses
ErrorBody(message) == [t |-> "json", message |-> message, status |-> "error"]

\* the handler is called: without a url it answers 400, else it fetches the document
WebGet ==
    /\ webPc = "received"
    /\ IF webReq.url = Undefined
       THEN /\ webRes' = WebResponse(400, "application/json",
                                     ErrorBody("no [url] query string parameter provided"))
            /\ webPc' = "sent"
       ELSE /\ webPc' = "fetching"
            /\ UNCHANGED webRes
    /\ UNCHANGED <<webReq, webR>>
    /\ UNCHANGED nonWebVars

\* the document arrives and lint is called; or body is rejected with a
\* string, which has no code, and the catch answers 500
WebBody(ok) ==
    /\ webPc = "fetching"
    /\ IF ok
       THEN /\ webPc' = "linting"
            /\ UNCHANGED webRes
       ELSE /\ webRes' = WebResponse(500, "application/json", ErrorBody("couldn't load [url]"))
            /\ webPc' = "sent"
    /\ UNCHANGED <<webReq, webR>>
    /\ UNCHANGED nonWebVars

\* lint's promise settles: with a Report, and the content is sent with
\* status 200; or with a rejection, and the catch answers 500
WebLint(p) ==
    /\ webPc = "linting"
    /\ IF p.state = "fulfilled"
       THEN /\ webR' = p.value
            /\ webRes' = WebResponse(200, "text/html", content(webReq, p.value))
       ELSE /\ webRes' = WebResponse(500, "application/json", ErrorBody("couldn't load [url]"))
            /\ UNCHANGED webR
    /\ webPc' = "sent"
    /\ UNCHANGED webReq
    /\ UNCHANGED nonWebVars

(***************************************************************************)
(* The specifications: one lint pass; the network helpers under load; the  *)
(* gated helpers with every request ending; one testsForType call.         *)
(***************************************************************************)
InitLint ==
    /\ IdleGate
    /\ IdleRule
    /\ IdleTap
    /\ IdleWeb
    /\ IdleFixtures
    /\ IdleContext
    /\ IdleCatalog
    /\ IdleCli
    /\ tcs \in RuleSets
    /\ launched = 0
    /\ how = [i \in 1..Len(tcs) |-> "idle"]
    /\ val = [i \in 1..Len(tcs) |-> Undefined]
    /\ res = [i \in 1..Len(tcs) |-> Pending]
    /\ lintP = Pending
    /\ lastSettled = 0

NextLint ==
    \/ \E i \in 1..MaxRules : Launch(i)
    \/ \E i \in 1..MaxRules : Settle(i)
    \/ LintResolve
    \/ LintReject

Spec == InitLint /\ [][NextLint]_vars

\* one lint pass in which what can run does run: map() calls every rule, and
\* the continuation of `await Promise.all(...)` runs once Promise.all has
\* settled.  A rule's own promise need never settle.
SpecLintFair ==
    /\ InitLint
    /\ [][NextLint]_vars
    /\ WF_vars(\E i \in 1..MaxRules : Launch(i))
    /\ WF_vars(LintResolve)
    /\ WF_vars(LintReject)

InitGate == IdleLint /\ IdleGate /\ IdleCatalog /\ IdleCli /\ IdleContext /\ IdleFixtures /\ IdleRule /\ IdleTap /\ IdleWeb

NextGate ==
    \/ \E g \in Gated : Run(g)
    \/ \E g \in Gated : \E end \in Ends : Release(g, end)
    \/ \E h \in Ungated : Direct(h)
    \/ \E h \in Ungated : \E end \in Ends : DirectEnd(h, end)

SpecGate == InitGate /\ [][NextGate]_vars

\* the gated helpers alone, every request in flight ending in the end
NextGated ==
    \/ \E g \in Gated : Run(g)
    \/ \E g \in Gated : \E end \in Ends : Release(g, end)

SpecGateFair ==
    /\ InitGate
    /\ [][NextGated]_vars
    /\ \A g \in Gated : WF_vars(\E end \in Ends : Release(g, end))

InitCatalog ==
    /\ IdleLint
    /\ IdleGate
    /\ IdleRule
    /\ IdleTap
    /\ IdleWeb
    /\ IdleFixtures
    /\ IdleContext
    /\ IdleCli
    /\ impl \in Impls
    /\ type \in TypeArgs
    /\ doc \in Documents
    /\ selected = Null

NextCatalog == SelectTests

SpecCatalog == InitCatalog /\ [][NextCatalog]_vars

\* a formatter applied to a Report
InitFormat ==
    /\ IdleLint
    /\ IdleGate
    /\ IdleRule
    /\ IdleTap
    /\ IdleWeb
    /\ IdleFixtures
    /\ IdleContext
    /\ impl \in Impls
    /\ type = "auto"
    /\ doc = <<>>
    /\ selected = Null
    /\ cliPc = "off"
    /\ raw = Pending
    /\ format \in Formats
    /\ data \in Reports
    /\ output = Nothing
    /\ stdout = Nothing
    /\ stderr = Nothing
    /\ exitCode = 0

NextFormat == FormatData

SpecFormat == InitFormat /\ [][NextFormat]_vars

\* one run of the command line, from the request for the document on
InitCli ==
    /\ IdleLint
    /\ IdleGate
    /\ IdleRule
    /\ IdleTap
    /\ IdleWeb
    /\ IdleFixtures
    /\ IdleContext
    /\ impl \in Impls
    /\ type = "auto"
    /\ doc = <<>>
    /\ selected = Null
    /\ cliPc = "fetching"
    /\ raw = Pending
    /\ format \in (IF impl = "rules" THEN Formats ELSE {"json", "tsv"})
    /\ data = <<>>
    /\ output = Nothing
    /\ stdout = Nothing
    /\ stderr = Nothing
    /\ exitCode = 0

NextCli ==
    \/ CliObtained
    \/ CliFetchFailed
    \/ \E i \in 1..MaxRules : cliPc = "linting" /\ impl = "rules" /\ Launch(i)
    \/ \E i \in 1..MaxRules : cliPc = "linting" /\ impl = "rules" /\ Settle(i)
    \/ \E i \in 1..MaxRules : cliPc = "linting" /\ impl = "functions" /\ LaunchFn(i)
    \/ \E i \in 1..MaxRules : cliPc = "linting" /\ impl = "functions" /\ SettleFn(i)
    \/ cliPc = "linting" /\ LintResolve
    \/ cliPc = "linting" /\ impl = "rules" /\ LintReject
    \/ CliPrint
    \/ CliCatch
    \/ CliCatchFn

SpecCli == InitCli /\ [][NextCli]_vars

\* the requests of one lint pass, on a Context constructed with any headers
InitContext ==
    /\ IdleLint
    /\ IdleGate
    /\ IdleRule
    /\ IdleTap
    /\ IdleWeb
    /\ IdleFixtures
    /\ IdleCatalog
    /\ IdleCli
    /\ context = ContextOf("https://example.com/")
    /\ \E hs \in ContextHeaders :
          /\ heap = [r \in {"ctx", "tmp"} |-> IF r = "ctx" THEN hs ELSE EmptyHeaders]
          /\ built = [context |-> context, headers |-> hs]
    /\ sent = Nothing

NextContext ==
    \/ \E h \in PassingHelpers : RequestAsIs(h)
    \/ RequestDimensions
    \/ RequestSameOrigin
    \/ RequestCache
    \/ \E lit \in AcceptLiterals : RequestNegotiation(lit)

SpecContext == InitContext /\ [][NextContext]_vars

\* a test file's withFixture calls, with any of the fixture files present
InitFixtures ==
    /\ IdleLint
    /\ IdleGate
    /\ IdleRule
    /\ IdleTap
    /\ IdleWeb
    /\ IdleCatalog
    /\ IdleCli
    /\ IdleContext
    /\ ops = <<>>
    /\ fxSize = 1
    /\ fxQueue = <<>>
    /\ mode = "dryrun"
    /\ files \in SUBSET FixtureNames

NextFixtures ==
    \/ \E name \in FixtureNames : FxCall(name)
    \/ \E i \in 1..MaxOps : FxScope(i)
    \/ \E i \in 1..MaxOps : \E r \in FnResults : FxFnSettle(i, r)
    \/ \E i \in 1..MaxOps : FxTimer(i)

SpecFixtures == InitFixtures /\ [][NextFixtures]_vars

InitRules ==
    /\ IdleLint
    /\ IdleGate
    /\ IdleCatalog
    /\ IdleCli
    /\ IdleContext
    /\ IdleFixtures
    /\ IdleTap
    /\ IdleWeb
    /\ rule \in NetworkTests
    /\ rin \in InputsOf(rule)
    /\ reqs = <<>>
    /\ completed = <<>>
    /\ rout = Nothing

NextRules ==
    \/ CallTest
    \/ \E k \in 1..Len(reqs) : \E o \in OutcomesOf(rule) : RequestSettles(k, o)

SpecRules == InitRules /\ [][NextRules]_vars

\* one run of a local fixture runner over the directories of its fixtures
InitTap ==
    /\ IdleLint
    /\ IdleGate
    /\ IdleCatalog
    /\ IdleCli
    /\ IdleContext
    /\ IdleFixtures
    /\ IdleRule
    /\ IdleWeb
    /\ version \in Versions
    /\ dirs \in 0..MaxDirs
    /\ COUNT = 0
    /\ counts = <<>>
    /\ tapSt = <<>>
    /\ tapOut = <<>>

NextTap ==
    \/ TapLoop
    \/ \E d \in 1..MaxDirs : \E r \in RunResults : TapResume(d, r)

SpecTap == InitTap /\ [][NextTap]_vars

\* one request to /lint
InitWeb ==
    /\ IdleLint
    /\ IdleGate
    /\ IdleCatalog
    /\ IdleCli
    /\ IdleContext
    /\ IdleFixtures
    /\ IdleRule
    /\ IdleTap
    /\ webReq \in Queries
    /\ webPc = "received"
    /\ webR = Nothing
    /\ webRes = Nothing

NextWeb ==
    \/ WebGet
    \/ \E ok \in BOOLEAN : WebBody(ok)
    \/ \E p \in {Fulfilled(r) : r \in Reports} \cup {Rejected(ErrorObj("boom"))} : WebLint(p)

SpecWeb == InitWeb /\ [][NextWeb]_vars

(***************************************************************************)
(* Properties of lint.                                                     *)
(***************************************************************************)
Keys == { toLowerCase(tcs[i]) : i \in 1..N }

\* no two rules of the set have the same case-normalized name
KeysDistinct ==
    \A i, j \in 1..N : i # j => toLowerCase(tcs[i]) # toLowerCase(tcs[j])

\* every rule has been instantiated and has returned, thrown or rejected
AllSettled == launched = N /\ \A i \in 1..N : how[i] \notin {"idle", "pending"}

LintDone == lintP.state # "pending"

Report == lintP.value

\* C1: for a rule set with pairwise distinct (case-normalized) names, once
\* every rule has returned, thrown or rejected and lint is done, lint has
\* resolved to a Report with exactly |R| entries, one key per rule of R.
C1_OneEntryPerRule ==
    (KeysDistinct /\ AllSettled /\ LintDone) =>
        /\ lintP.state = "fulfilled"
        /\ DOMAIN Report = Keys
        /\ Cardinality(DOMAIN Report) = N

\* C2: when a rule's run threw synchronously or its promise rejected, with
\* any thrown value, the Report entry under that rule's key has status
\* INTERNAL_ERROR and a message that is a non-empty string.
C2_InternalErrorHasMessage ==
    (lintP.state = "fulfilled" /\ KeysDistinct) =>
        \A i \in 1..N :
            how[i] \in {"threw", "rejected"} =>
                LET r == Report[toLowerCase(tcs[i])]
                IN  /\ r.t = "result"
                    /\ r.status = "INTERNAL_ERROR"
                    /\ r.message.t = "string"
                    /\ r.message.s # ""

C4_LintNeverRejects == lintP.state # "rejected"

\* C9: lint of a rule set of length 0 does not reject, can resolve at once
\* and resolves to the object with no entries.
C9_EmptyRuleSet ==
    N = 0 =>
        /\ lintP.state # "rejected"
        /\ lintP.state = "pending" => ENABLED LintResolve
        /\ lintP.state = "fulfilled" => (Report = EmptyObject /\ DOMAIN Report = {})

\* C9 witness: lint of the empty rule set has resolved.
C9_Witness == N = 0 /\ lintP.state = "fulfilled" /\ DOMAIN lintP.value = {}

(***************************************************************************)
(* Properties of the gates.                                                *)
(***************************************************************************)
GatedInFlight == inFlight["redirectUrl"] + inFlight["contentLength"]

PermitsHeld ==
    (CONCURRENCY - size["redirectUrl"]) + (CONCURRENCY - size["contentLength"])

\* every request in flight that a rule issued, through a gate or directly
NetworkInFlight == GatedInFlight + direct

RangeOf(q) == { q[k] : k \in 1..Len(q) }

\* C5 as stated: the requests in flight through redirectUrl and
\* contentLength together never number more than CONCURRENCY.
C5_AtMostNTogether == GatedInFlight <= CONCURRENCY

\* C5 amended: each gated helper has its own throat instance, so the
\* requests in flight through one helper never number more than CONCURRENCY,
\* and those through both together never more than twice that.
C5_AtMostNPerHelper ==
    /\ \A g \in Gated : inFlight[g] <= CONCURRENCY
    /\ GatedInFlight <= 2 * CONCURRENCY

\* C5 witness: more callers than permits on each helper: both helpers have
\* CONCURRENCY requests in flight and a call of one of them waits.
C5_Witness ==
    /\ \A g \in Gated : inFlight[g] = CONCURRENCY
    /\ \E g \in Gated : arrived[g] > CONCURRENCY /\ queue[g] # <<>>

\* C6 as stated: every outbound request of a rule holds a gate permit, so
\* the requests in flight never number more than CONCURRENCY.
C6_AllCallsGated ==
    /\ NetworkInFlight <= CONCURRENCY
    /\ PermitsHeld = NetworkInFlight

\* C6 amended: the permits held are exactly those of the requests in flight
\* inside redirectUrl and contentLength; a request issued directly (XHR
\* checks, image probes, signed-exchange requests) starts at once, whatever
\* the gates' state, and takes no permit.
C6_OnlyGatedHelpersHoldPermits ==
    /\ [](PermitsHeld = GatedInFlight)
    /\ [][direct' > direct =>
            /\ size' = size
            /\ queue' = queue
            /\ NetworkInFlight' = NetworkInFlight + 1]_vars

\* C6 witness: more than CONCURRENCY direct requests are in flight and no
\* permit is held.
C6_Witness == direct > CONCURRENCY /\ PermitsHeld = 0

\* C7: the permits out of a gate are those of the calls started and not yet
\* settled, fulfilled or rejected; once every call made has settled, no
\* request is in flight, every permit is back and a later caller is admitted
\* at once.
C7_PermitHeldWhilePending ==
    \A g \in Gated :
        /\ CONCURRENCY - size[g] = (arrived[g] - Len(queue[g])) - settled[g]
        /\ inFlight[g] = CONCURRENCY - size[g]
        /\ settled[g] = arrived[g] =>
              /\ inFlight[g] = 0
              /\ size[g] = CONCURRENCY
              /\ queue[g] = <<>>

\* C7 witness: a gate that was full, with calls waiting, has drained: every
\* call made has settled and every permit is back.
C7_Witness ==
    \E g \in Gated :
        /\ arrived[g] > CONCURRENCY
        /\ settled[g] = arrived[g]
        /\ size[g] = CONCURRENCY

\* C8: the calls delayed at a gate are started in arrival order: each
\* delayed call arrived after every call started so far and after the calls
\* delayed before it; and with every started request settling in the end,
\* every delayed call is started in the end.
C8_FifoNoStarvation ==
    /\ [](\A g \in Gated :
            /\ \A k \in 1..Len(queue[g]) : queue[g][k] > lastStarted[g]
            /\ \A k \in 1..(Len(queue[g]) - 1) : queue[g][k] < queue[g][k + 1])
    /\ [][\A g \in Gated : lastStarted'[g] >= lastStarted[g]]_vars
    /\ \A g \in Gated : \A c \in (CONCURRENCY + 1)..MaxCalls :
            (c \in RangeOf(queue[g])) ~> (c \notin RangeOf(queue[g]) /\ lastStarted[g] >= c)

\* C8 witness: two calls were delayed at a full gate and the one that
\* arrived first has been started, the other still waits.
C8_Witness ==
    \E g \in Gated :
        /\ lastStarted[g] = CONCURRENCY + 1
        /\ queue[g] # <<>>
        /\ Head(queue[g]) = CONCURRENCY + 2

(***************************************************************************)
(* Properties of the catalog.                                              *)
(***************************************************************************)
\* the LintType whose list testsForType returns
SelectedType ==
    CASE type = "sxg"      -> "Sxg"
      [] type = "amp"      -> "Amp"
      [] type = "ampstory" -> "AmpStory"
      [] OTHER             -> ampType(doc)

\* the general (Amp) type's list, from the same testsForType
BaseList ==
    IF impl = "rules" THEN testsForType("amp", doc) ELSE testsForTypeFn("amp", doc)

IsPrefix(p, q) == Len(p) <= Len(q) /\ SubSeq(q, 1, Len(p)) = p

RuleSetOf(q) == { q[k] : k \in 1..Len(q) }

\* the list is the base list, in order, followed by at least one more rule
ExtendsBase(q) == IsPrefix(BaseList, q) /\ Len(q) > Len(BaseList)

\* C10 as stated: the list returned for the story type and for the
\* signed-exchange type is the Amp list in the same order followed by the
\* type's additional rules.
C10_SpecializedExtendBase ==
    (selected # Null /\ SelectedType \in {"AmpStory", "Sxg"}) => ExtendsBase(selected)

\* C10 amended: the list returned for the story type is the Amp list in the
\* same order followed by the story rules; the list returned for the
\* signed-exchange type is a list of its own that holds no rule of the Amp list.
C10_StoryExtendsBase ==
    /\ (selected # Null /\ SelectedType = "AmpStory") =>
          /\ ExtendsBase(selected)
          /\ BaseList # <<>>
    /\ (selected # Null /\ SelectedType = "Sxg") =>
          /\ selected # <<>>
          /\ RuleSetOf(selected) \cap RuleSetOf(BaseList) = {}

\* C10 witness: testsForType has returned the story list, which begins with
\* the whole Amp list and goes on.
C10_Witness ==
    /\ selected # Null
    /\ type = "ampstory"
    /\ SubSeq(selected, 1, Len(BaseList)) = BaseList
    /\ Len(selected) > Len(BaseList)

\* the type strings the switch of testsForType names
RecognizedTypes == {"auto", "sxg", "amp", "ampstory"}

\* the list the called testsForType returns for type ty and document d
TestsFor(ty, d) ==
    IF impl = "rules" THEN testsForType(ty, d) ELSE testsForTypeFn(ty, d)

\* C11: when testsForType classifies the document itself (type auto) and
\* ampType tags it as a story, the rules selected are a strict superset of
\* the rules selected, the same way, for any document tagged as general.
C11_StorySupersetOfGeneral ==
    (selected # Null /\ type = "auto" /\ ampType(doc) = "AmpStory") =>
        \A d \in Documents :
            ampType(d) = "Amp" =>
                /\ RuleSetOf(TestsFor("auto", d)) \subseteq RuleSetOf(selected)
                /\ RuleSetOf(TestsFor("auto", d)) # RuleSetOf(selected)
                /\ TestsFor("auto", d) # <<>>

\* C11 witness: a document with one standalone amp-story in its body was
\* classified automatically and more rules than the general ones were selected.
C11_Witness ==
    /\ selected # Null
    /\ type = "auto"
    /\ BodyStandaloneStories(doc) = 1
    /\ RuleSetOf(TestsFor("auto", <<>>)) \subseteq RuleSetOf(selected)
    /\ Cardinality(RuleSetOf(selected)) > Cardinality(RuleSetOf(TestsFor("auto", <<>>)))

\* C12 as stated: for a type that is none of auto, sxg, amp, ampstory,
\* testsForType returns the empty sequence, for every document.
C12_UnrecognizedGivesEmpty ==
    (selected # Null /\ type \notin RecognizedTypes) => selected = <<>>

\* C12 amended: a type that is none of auto, sxg, amp, ampstory takes the
\* switch's default branch, which is also the branch of auto: testsForType
\* returns the list of the type ampType gives the document, the Amp list or
\* the story list, never the empty sequence.
C12_UnrecognizedIsAuto ==
    (selected # Null /\ type \notin RecognizedTypes) =>
        /\ selected # <<>>
        /\ ampType(doc) = "Amp" => selected = BaseList
        /\ ampType(doc) = "AmpStory" => ExtendsBase(selected)

\* C12 witness: testsForType was called with a type the switch does not
\* name, on a document without amp-story, and returned the Amp list.
C12_Witness ==
    /\ selected # Null
    /\ type = "amp4ads"
    /\ doc = <<>>
    /\ selected = BaseList
    /\ Len(selected) > 0

(***************************************************************************)
(* Properties of the command line.                                         *)
(***************************************************************************)
\* C13: the exit code is 0 when the document was obtained and lint resolved,
\* whatever the statuses in the Report; when the document could not be
\* fetched the exit code is not 0, the error is on standard error and no
\* report is printed.
C13_ExitCodes ==
    /\ (cliPc = "done" /\ raw.state = "fulfilled" /\ lintP.state = "fulfilled") =>
          exitCode = 0 /\ stdout # Nothing
    /\ (cliPc = "done" /\ raw.state = "rejected") =>
          exitCode # 0 /\ stderr # Nothing /\ stdout = Nothing

\* C13 for the cli of part_012 alone
C13_ExitCodesOfRulesCli == impl = "rules" => C13_ExitCodes

(***************************************************************************)
(* Properties of the formatters.                                           *)
(***************************************************************************)
\* the statuses of the Results of one key of a Report, an empty list counting as one PASS
ExpectedStatuses(v) ==
    IF v.t # "list" THEN <<v.status>>
    ELSE IF Len(v.items) = 0 THEN <<"PASS">>
    ELSE [i \in 1..Len(v.items) |-> v.items[i].status]

\* the rows of a sequence of rows that start with key k
RowsWithKey(rows, k) ==
    LET HasKey(r) == r[1] = k IN SelectSeq(rows, HasKey)

\* rows holds, for every key of d and for no other key, one row per Result
\* with that Result's status, and the keys in sorted order
OneRowPerResult(rows, d) ==
    /\ \A i \in 1..Len(rows) : rows[i][1] \in DOMAIN d
    /\ \A k \in DOMAIN d :
          LET kr == RowsWithKey(rows, k)
          IN  [i \in 1..Len(kr) |-> kr[i][2]] = ExpectedStatuses(d[k])
    /\ \A i \in 1..Len(rows) : \A j \in (i + 1)..Len(rows) :
          rows[i][1] = rows[j][1] \/ KeyLess(rows[i][1], rows[j][1])

\* the data rows of a tsv or html output
DataRows == IF output.t = "tsv" THEN splice1(output.lines) ELSE output.tbody

\* the tsv lines of the same Report, without the header line
TsvDataRows == splice1(outputterForType("tsv", data).lines)

\* C14: a tsv or html output holds exactly one data row per Result of the
\* Report (one for a single Result, n for a list of n > 0, one PASS row for
\* an empty list), in sorted key order, and html's rows are tsv's data rows.
C14_OneDataRowPerResult ==
    (output # Nothing /\ output.t \in {"tsv", "html"}) =>
        /\ OneRowPerResult(DataRows, data)
        /\ output.t = "html" => DataRows = TsvDataRows

\* the part of C14 that counts rows
C14_RowCounts ==
    (output # Nothing /\ output.t \in {"tsv", "html"}) => OneRowPerResult(DataRows, data)

\* the blocks of a text output as rows: name and status
BlockRows == [i \in 1..Len(output.blocks) |-> output.blocks[i].head]

\* C15 as stated: a text output holds exactly one block per rule (key) of
\* the Report, also when a rule's outcome is a list of several Results.
C15_OneBlockPerRule ==
    (output # Nothing /\ output.t = "text") =>
        /\ Len(output.blocks) = Cardinality(DOMAIN data)
        /\ \A k \in DOMAIN data : Len(RowsWithKey(BlockRows, k)) = 1

\* C15 amended: a text output holds exactly one block per flattened Result
\* of the Report, in sorted key order: one for a single Result, n for a list
\* of n > 0 Results, one PASS block for an empty list.
C15_OneBlockPerResult ==
    (output # Nothing /\ output.t = "text") => OneRowPerResult(BlockRows, data)

\* C15 witness: a Report with a rule whose outcome is a list of two Results
\* was formatted as text and got more blocks than it has rules.
C15_Witness ==
    /\ output # Nothing
    /\ output.t = "text"
    /\ \E k \in DOMAIN data : data[k].t = "list" /\ Len(data[k].items) = 2
    /\ Len(output.blocks) > Cardinality(DOMAIN data)

(***************************************************************************)
(* Properties of the Context.                                              *)
(***************************************************************************)
\* C16: whatever requests the helpers and rules have issued, the Context's
\* url, raw and headers reference, and the header object it refers to, are
\* as they were constructed, though the headers sent were derived from it.
C16_ContextNotMutated ==
    /\ context = built.context
    /\ heap[context.headers] = built.headers

\* C16 witness: dimensions sent a request without accept-encoding, made of
\* a Context that holds accept-encoding and still does.
C16_Witness ==
    /\ sent # Nothing
    /\ sent.helper = "dimensions"
    /\ "accept-encoding" \in DOMAIN built.headers
    /\ "accept-encoding" \notin DOMAIN sent.headers
    /\ "accept-encoding" \in DOMAIN heap[context.headers]
    /\ DOMAIN sent.headers = DOMAIN built.headers \ {"accept-encoding"}

(***************************************************************************)
(* Properties of lint on rules with the same name.                         *)
(***************************************************************************)
\* rule i's entry for the Report: the second element of its [name, outcome] pair
EntryOf(i) == res[i].value[2]

SameKey(i, j) == toLowerCase(tcs[i]) = toLowerCase(tcs[j])

\* the position of the last rule of the set with rule i's key
LastWithKey(i) == CHOOSE j \in 1..N : SameKey(i, j) /\ \A m \in 1..N : SameKey(i, m) => m <= j

\* C17 as stated: rules with the same case-normalized name share one entry
\* of the Report, and it is the outcome of the one that settled last,
\* whatever its position.
C17_LastSettledWins ==
    lintP.state = "fulfilled" =>
        /\ DOMAIN Report = Keys
        /\ \A i \in 1..N : \A j \in 1..N :
              (i # j /\ SameKey(i, j) /\ lastSettled = i) =>
                  Report[toLowerCase(tcs[i])] = EntryOf(i)

\* C17 amended: rules with the same case-normalized name share one entry of
\* the Report, and it is the outcome of the one that comes last in the rule
\* set, whatever the order the rules settled in.
C17_LastPositionWins ==
    lintP.state = "fulfilled" =>
        /\ DOMAIN Report = Keys
        /\ \A i \in 1..N : Report[toLowerCase(tcs[i])] = EntryOf(LastWithKey(i))

\* C17 witness: of two rules with the same key the first settled last, with
\* another outcome than the second, and the Report holds the second's.
C17_Witness ==
    /\ lintP.state = "fulfilled"
    /\ \E i \in 1..N : \E j \in 1..N :
          /\ i < j
          /\ SameKey(i, j)
          /\ tcs[i] # tcs[j]
          /\ lastSettled = i
          /\ how[i] = "returned" /\ how[j] = "returned"
          /\ EntryOf(i) # EntryOf(j)
          /\ Report[toLowerCase(tcs[i])] = EntryOf(j)

(***************************************************************************)
(* Properties of the fixture harness.                                      *)
(***************************************************************************)
\* the positions of a body that has started and whose promise is pending
InBody == {"setup", "fn", "delay"}

Started(i) == ops[i].pc # "queued"

RetSettled(i) == ops[i].ret.state # "pending"

\* C18: at most one withFixture operation is in its body at any time, and a
\* later call's body has not started unless every earlier call's returned
\* promise has settled.
C18_OneAtATime ==
    /\ Cardinality({ i \in 1..Len(ops) : ops[i].pc \in InBody }) <= 1
    /\ \A i \in 1..Len(ops) : \A j \in 1..Len(ops) :
          (i < j /\ Started(j)) => RetSettled(i)

\* C18 witness: the second call's body runs after the first call's promise
\* settled, while a third call waits in the queue.
C18_Witness ==
    /\ Len(ops) = 3
    /\ RetSettled(1)
    /\ ops[2].pc = "fn"
    /\ ops[3].pc = "queued"
    /\ fxQueue = <<3>>

\* C19: an operation whose fixture file existed when its body started has
\* the nockBack mode at lockdown from before fn starts until fn has
\* settled; it is never record in between.
C19_ReplayInLockdown ==
    \A i \in 1..Len(ops) :
        (ops[i].branch = "replay" /\ ops[i].pc \in {"setup", "fn"}) =>
            mode = "lockdown"

\* C19 witness: fn of a replaying operation runs in lockdown while a call
\* for a name without fixture file, which will record, waits in the queue.
C19_Witness ==
    /\ \E i \in 1..Len(ops) :
          ops[i].branch = "replay" /\ ops[i].pc = "fn" /\ ops[i].name \in files
    /\ \E j \in 1..Len(ops) : ops[j].pc = "queued" /\ ops[j].name \notin files
    /\ mode = "lockdown"

\* C20: an operation that found no fixture file runs fn in record mode;
\* when fn is fulfilled the settle delay follows, then nockDone, once, and
\* only then is the returned promise fulfilled, with fn's result, and is
\* the next queued operation started.
C20_RecordThenDelayThenDone ==
    \A i \in 1..Len(ops) :
        ops[i].branch = "record" =>
            /\ ops[i].pc \in {"setup", "fn"} =>
                  mode = "record" /\ ops[i].nockDone = 0 /\ ~RetSettled(i)
            /\ ops[i].pc = "delay" =>
                  /\ ops[i].fn.state = "fulfilled"
                  /\ ops[i].nockDone = 0
                  /\ ~ops[i].waited
                  /\ ~RetSettled(i)
            /\ ops[i].ret.state = "fulfilled" =>
                  /\ ops[i].pc = "done"
                  /\ ops[i].waited
                  /\ ops[i].nockDone = 1
                  /\ ops[i].ret = ops[i].fn
                  /\ ops[i].name \in files
            /\ ops[i].fn.state = "fulfilled" =>
                  \A j \in 1..Len(ops) :
                      (i < j /\ Started(j)) =>
                          ops[i].waited /\ ops[i].nockDone = 1 /\ RetSettled(i)

\* C20 witness: a recording operation went through the delay and nockDone,
\* its promise holds fn's result, and the operation queued behind it has
\* started.
C20_Witness ==
    /\ Len(ops) >= 2
    /\ ops[1].branch = "record"
    /\ ops[1].pc = "done"
    /\ ops[1].waited
    /\ ops[1].nockDone = 1
    /\ ops[1].ret = Fulfilled(Str("b"))
    /\ ops[2].pc = "fn"

\* C21: when fn rejects in an operation that records, the promise
\* withFixture returned is rejected with fn's error: fn is not called
\* again, the operation does not wait for the settle delay or stay in its
\* body, and the promise is not fulfilled.
C21_RecordRejectionSurfaces ==
    \A i \in 1..Len(ops) :
        (ops[i].branch = "record" /\ ops[i].fn.state = "rejected") =>
            /\ ops[i].ret = ops[i].fn
            /\ ops[i].pc = "failed"
            /\ ~ops[i].waited

\* C21 witness: a recording operation's fn rejected and its promise holds
\* that error, with the next call already started.
C21_Witness ==
    /\ Len(ops) >= 2
    /\ ops[1].branch = "record"
    /\ ops[1].fn = Rejected(ErrorObj("request failed"))
    /\ ops[1].ret = Rejected(ErrorObj("request failed"))
    /\ ops[1].pc = "failed"
    /\ Started(2)

\* the operation's `await nockBack(fixturePath)` has given it a scope
ScopeOpened(i) == ops[i].pc \in {"fn", "delay", "done", "failed"}

\* C28: an operation that opened a nockBack scope has called that scope's
\* nockDone exactly once by the time a later operation starts, in the replay
\* and in the record branch, also when fn rejected; and never more than once.
C28_NockDoneOnceBeforeNext ==
    /\ \A i \in 1..Len(ops) : ops[i].nockDone <= 1
    /\ \A i \in 1..Len(ops) : \A j \in 1..Len(ops) :
          (i < j /\ ScopeOpened(i) /\ Started(j)) => ops[i].nockDone = 1

\* LinkRelCanonicalIsOk has been called
CanonicalCalled == rule = "LinkRelCanonicalIsOk" /\ rout # Nothing

\* the document has a <link rel=canonical> with an href attribute
HasCanonical == rin.canonical # Undefined

\* C22: LinkRelCanonicalIsOk never rejects and returns PASS or FAIL; PASS
\* exactly when the document has a canonical link, the link's absolute URL
\* is the Context's url, and the one request made for that url ended at the
\* same url.  Without the link the Result is FAIL '<link rel=canonical> not
\* specified' and no request was made; a request that failed gives FAIL.
C22_CanonicalPassExactly ==
    CanonicalCalled =>
        /\ rout.state # "rejected"
        /\ ~HasCanonical =>
              /\ rout = Fulfilled(FAIL("<link rel=canonical> not specified"))
              /\ reqs = <<>>
        /\ rout.state = "fulfilled" =>
              /\ rout.value.status \in {"PASS", "FAIL"}
              /\ rout.value.status = "PASS" <=>
                    /\ HasCanonical
                    /\ absoluteUrl(rin.canonical, rin.url) = rin.url
                    /\ reqs = <<Fulfilled(rin.url)>>
        /\ (reqs # <<>> /\ reqs[1].state = "rejected") =>
              /\ rout.state = "fulfilled"
              /\ rout.value.status = "FAIL"

\* C22 witness: a canonical link given as a path resolved to the Context's
\* url, the request for it ended at that url, and the Result is PASS.
C22_Witness ==
    /\ CanonicalCalled
    /\ rin.canonical = RootedHref("/story")
    /\ rin.url = Url("https://a.example", "/story")
    /\ reqs = <<Fulfilled(Url("https://a.example", "/story"))>>
    /\ rout = Fulfilled(PASS)

\* a test function of the model has been called
TestCalled == rule \in NetworkTests /\ rout # Nothing

\* C23: no test function's promise is rejected because a request failed or
\* its response was not ok: the failure becomes a FAIL or WARN Result.
C23_NetworkFailureIsAResult ==
    TestCalled => rout.state # "rejected"

\* AmpImgHeightWidthIsOk has been called
ImgCalled == rule = "AmpImgHeightWidthIsOk" /\ rout # Nothing

\* the Result of the k-th amp-img, once its probe has settled
ImgResult(k) == test(rin.elems[k], reqs[k]).value

C24_AllRunsStartBeforeAnyWait ==
    /\ (lintP.state = "pending" /\ launched < N) => ENABLED Launch(launched + 1)
    /\ (\E i \in 1..N : how[i] \in {"returned", "rejected"}) => launched = N
    /\ \A i \in 1..N : (launched = N /\ how[i] = "pending") => ENABLED Settle(i)

\* C24 witness: the second rule's run has settled while the first rule's
\* run is still pending.
C24_Witness ==
    /\ N = 2
    /\ launched = 2
    /\ how[1] = "pending"
    /\ how[2] = "returned"

\* lint has resolved to a Report that has a key for every rule
ResolvedComplete == lintP.state = "fulfilled" /\ DOMAIN lintP.value = Keys

\* C25: lint resolves exactly when every rule has settled: while a rule is
\* still pending lint has not resolved, and once every rule has returned,
\* thrown or rejected lint eventually resolves to a Report with the complete
\* key set.
C25_ResolvesExactlyWhenAllSettled ==
    /\ [](lintP.state = "fulfilled" => AllSettled)
    /\ AllSettled ~> ResolvedComplete

\* no constructor has thrown
NoCtorThrew == \A i \in 1..N : how[i] # "ctorThrew"

\* what holds of C25 in the code: the same, for passes in which every rule
\* was instantiated
C25_ResolvesWhenAllRunsSettled ==
    /\ [](lintP.state = "fulfilled" => AllSettled)
    /\ (AllSettled /\ NoCtorThrew) ~> ResolvedComplete

\* C26: the lint of index.ts never rejects because a test misbehaves: when a
\* test throws or its promise rejects, lint is not rejected.
C26_FunctionLintNeverRejects ==
    impl = "functions" => lintP.state # "rejected"

\* the numbers of the result lines written so far
ResultNumbers == {tapOut[i].n : i \in 2..Len(tapOut)}

\* the result lines carry each its own directory's number, and no number twice
OwnNumbers ==
    /\ \A i \in 2..Len(tapOut) : tapOut[i].n = tapOut[i].dir
    /\ \A i, j \in 2..Len(tapOut) : i # j => tapOut[i].n # tapOut[j].n
    /\ (\A d \in 1..Len(tapSt) : tapSt[d] = "printed") => ResultNumbers = 1..dirs

\* C29: in both runners the plan line reports the number n of directories,
\* each result line carries the sequence number of its own directory, and
\* when every directory has its line the numbers are exactly 1..n, each
\* once, whatever order the runs settled in.
C29_OwnSequenceNumbers ==
    tapOut # <<>> => (tapOut[1] = PlanLine(dirs) /\ OwnNumbers)

\* what holds of C29 in the code: the plan line of both runners, and the
\* numbering of the first
C29_FirstRunnerOwnNumbers ==
    tapOut # <<>> => (tapOut[1] = PlanLine(dirs) /\ (version = 1 => OwnNumbers))

\* some Result of the Report r, alone or in a list, has status FAIL
HasFail(r) ==
    \E k \in DOMAIN r :
        IF r[k].t = "list"
        THEN \E i \in 1..Len(r[k].items) : r[k].items[i].status = "FAIL"
        ELSE r[k].status = "FAIL"

\* the handler has sent the summary of a Report
SummarySent == webPc = "sent" /\ webReq.type = Str("summary") /\ webRes.status = 200

\* C30: the summary the /lint handler sends is FAIL exactly when some Result
\* of the Report has status FAIL, and PASS otherwise.
C30_SummaryFailIffSomeFail ==
    SummarySent => webRes.body = Str(IF HasFail(webR) THEN "FAIL" ELSE "PASS")

\* what holds of C30 in the code: a Report with a FAIL Result is summed up
\* as FAIL, and the summary is FAIL exactly when some single Result is FAIL
\* or some list is not empty
C30_SummaryOfTheCode ==
    SummarySent =>
        /\ webRes.body \in {Str("PASS"), Str("FAIL")}
        /\ HasFail(webR) => webRes.body = Str("FAIL")
        /\ webRes.body = Str("FAIL") <=>
              \E k \in DOMAIN webR :
                  \/ webR[k].t # "list" /\ webR[k].status = "FAIL"
                  \/ webR[k].t = "list" /\ webR[k].items # <<>>

====
